---- MODULE Spec2Model ----
(***************************************************************************)
(* Model of agentbox's in-memory task DAG (internal/taskdb), of the        *)
(* supervisor and its sprint runner (internal/supervisor), and of the part *)
(* of the Store (internal/store) they write to.                            *)
(*                                                                         *)
(* A DB is the Go map db.Tasks: a function from the ids present to task    *)
(* records.  Map iteration order is unspecified in Go, so every place the  *)
(* code ranges over a map is modelled as a choice over the orders.         *)
(***************************************************************************)
EXTENDS Integers, Sequences, FiniteSets, TLC

VARIABLES
  tasks,   \* db.Tasks: id -> Task, for the ids present
  clock,   \* the last reading of time.Now()
  ret,     \* the last call: operation, arguments, result
  nops,    \* number of calls made so far
  sup,     \* Supervisor.Run and SprintRunner.RunSprint: position and locals
  env,     \* the context (cancelled or not) and the elapsed time
  cfg,     \* supervisor.Config and the PRD of the session
  store,   \* the Store: session row, task rows, attempt rows, write log
  conc     \* goroutines calling the TaskDB concurrently, and db.mu

vars == <<tasks, clock, ret, nops, sup, env, cfg, store, conc>>

svars == <<sup, env, cfg, store, conc>>

(***************************************************************************)
(* Bounds of the exploration.                                              *)
(***************************************************************************)
Ids == {"a", "b", "c", "d"}
SubIds == {"a", "d", "e"}
DagIds == {"a", "b", "c"}
SchedIds == {"a", "b"}
MaxOps == 3
MaxPriority == 1
MaxTime == 2
MaxDeps == 1
MaxListLen == 2
MaxNewDeps == 2
MaxSubs == 2
MaxOld == 2
MaxAttemptsIn == 2
MaxConcCalls == 1

(***************************************************************************)
(* task.go: statuses and defaults.                                         *)
(***************************************************************************)
StatusPending == "pending"
StatusInProgress == "in_progress"
StatusCompleted == "completed"
StatusFailed == "failed"
StatusDeferred == "deferred"
StatusBlocked == "blocked"

Statuses ==
  {StatusPending, StatusInProgress, StatusCompleted, StatusFailed,
   StatusDeferred, StatusBlocked}

DefaultMaxAttempts == 3
DefaultComplexity == 3

NoID == ""

(***************************************************************************)
(* Helpers on sequences.                                                   *)
(***************************************************************************)
Range(s) == {s[i] : i \in 1..Len(s)}

Contains(s, x) == \E i \in 1..Len(s) : s[i] = x

NoDup(s) == \A i, j \in 1..Len(s) : s[i] = s[j] => i = j

SeqsUpTo(S, n) == UNION {[1..k -> S] : k \in 0..n}

Perms(S) == {p \in [1..Cardinality(S) -> S] : Range(p) = S}

(***************************************************************************)
(* The Task struct.  A task handed to Add/SplitTask/MergeTasks by a caller *)
(* is a record of the same shape.                                          *)
(***************************************************************************)
Task(id, status, priority, dependsOn, maxAttempts, createdAt) ==
  [id |-> id, status |-> status, priority |-> priority, complexity |-> 0,
   parentID |-> NoID, dependsOn |-> dependsOn, maxAttempts |-> maxAttempts,
   attempts |-> <<>>, createdAt |-> createdAt]

\* A scheduler that allows one attempt too many.
HasExhaustedOffByOne(t) == Len(t.attempts) > t.maxAttempts

\* task.go HasExhaustedAttempts
HasExhaustedAttempts(t) == Len(t.attempts) >= t.maxAttempts

(***************************************************************************)
(* db.go addLocked: fails on a duplicate id, else fills the defaults and   *)
(* stores the task.  now is the value time.Now() returns.                  *)
(***************************************************************************)
FillDefaults(task, now) ==
  [task EXCEPT
     !.maxAttempts = IF @ = 0 THEN DefaultMaxAttempts ELSE @,
     !.complexity = IF @ = 0 THEN DefaultComplexity ELSE @,
     !.createdAt = IF @ = 0 THEN now ELSE @]

Put(db, task) ==
  [i \in DOMAIN db \cup {task.id} |-> IF i = task.id THEN task ELSE db[i]]

addLocked(db, task, now) ==
  IF task.id \in DOMAIN db
    THEN [db |-> db, err |-> "exists"]
    ELSE [db |-> Put(db, FillDefaults(task, now)), err |-> ""]

(***************************************************************************)
(* db.go wouldCreateCycle: DFS from `from` along DependsOn looking for     *)
(* taskID, with a visited set.  Returns [found, visited].                  *)
(***************************************************************************)
RECURSIVE wccDfs(_, _, _, _)
RECURSIVE wccLoop(_, _, _, _, _)

wccDfs(db, taskID, id, visited) ==
  IF id = taskID THEN [found |-> TRUE, visited |-> visited]
  ELSE IF id \in visited THEN [found |-> FALSE, visited |-> visited]
  ELSE IF id \notin DOMAIN db
    THEN [found |-> FALSE, visited |-> visited \cup {id}]
  ELSE wccLoop(db, taskID, db[id].dependsOn, 1, visited \cup {id})

wccLoop(db, taskID, deps, i, visited) ==
  IF i > Len(deps) THEN [found |-> FALSE, visited |-> visited]
  ELSE LET r == wccDfs(db, taskID, deps[i], visited)
       IN IF r.found THEN r
          ELSE wccLoop(db, taskID, deps, i + 1, r.visited)

\* A check that looks one edge deep only.
wouldCreateCycleOneDeep(db, taskID, from) ==
  from = taskID \/ (from \in DOMAIN db /\ Contains(db[from].dependsOn, taskID))

wouldCreateCycle(db, taskID, from) == wccDfs(db, taskID, from, {}).found

(***************************************************************************)
(* db.go AddDependency.                                                    *)
(***************************************************************************)
AppendDep(db, taskID, dependsOn) ==
  [db EXCEPT ![taskID].dependsOn = Append(@, dependsOn)]

\* An AddDependency that reports the cycle but keeps the edge.
addDependencyNoRollback(db, taskID, dependsOn) ==
  IF taskID \notin DOMAIN db THEN [db |-> db, err |-> "not found"]
  ELSE IF dependsOn \notin DOMAIN db
    THEN [db |-> db, err |-> "dependency not found"]
  ELSE IF Contains(db[taskID].dependsOn, dependsOn)
    THEN [db |-> db, err |-> ""]
  ELSE LET added == AppendDep(db, taskID, dependsOn)
       IN [db |-> added,
           err |-> IF wouldCreateCycle(added, taskID, dependsOn)
                     THEN "cycle" ELSE ""]

addDependency(db, taskID, dependsOn) ==
  IF taskID \notin DOMAIN db THEN [db |-> db, err |-> "not found"]
  ELSE IF dependsOn \notin DOMAIN db
    THEN [db |-> db, err |-> "dependency not found"]
  ELSE IF Contains(db[taskID].dependsOn, dependsOn)
    THEN [db |-> db, err |-> ""]
  ELSE LET added == AppendDep(db, taskID, dependsOn)
       IN IF wouldCreateCycle(added, taskID, dependsOn)
            THEN [db |-> [added EXCEPT ![taskID].dependsOn =
                            SubSeq(@, 1, Len(@) - 1)],
                  err |-> "cycle"]
            ELSE [db |-> added, err |-> ""]

(***************************************************************************)
(* db.go DetectCycles: DFS with visited and on-stack sets and the current  *)
(* path; `order` is the order in which `range db.Tasks` yields the ids.    *)
(* The DFS state is [visited, inStack, path, cycles].                      *)
(***************************************************************************)
RECURSIVE ExtractCycle(_, _, _, _)
ExtractCycle(path, dep, i, cycle) ==
  IF i < 1 THEN cycle
  ELSE IF path[i] = dep THEN Append(cycle, path[i])
  ELSE ExtractCycle(path, dep, i - 1, Append(cycle, path[i]))

RECURSIVE dcDfs(_, _, _)
RECURSIVE dcLoop(_, _, _, _)

dcDfs(db, id, st) ==
  LET entered == [st EXCEPT !.visited = @ \cup {id},
                            !.inStack = @ \cup {id},
                            !.path = Append(@, id)]
      body == IF id \notin DOMAIN db THEN entered
              ELSE dcLoop(db, db[id].dependsOn, 1, entered)
  IN [body EXCEPT !.path = SubSeq(@, 1, Len(@) - 1),
                  !.inStack = @ \ {id}]

dcLoop(db, deps, i, st) ==
  IF i > Len(deps) THEN st
  ELSE LET dep == deps[i]
           st1 == IF dep \notin st.visited THEN dcDfs(db, dep, st)
                  ELSE IF dep \in st.inStack
                    THEN [st EXCEPT !.cycles =
                            Append(@, ExtractCycle(st.path, dep,
                                                   Len(st.path), <<dep>>))]
                  ELSE st
       IN dcLoop(db, deps, i + 1, st1)

RECURSIVE dcRoots(_, _, _, _)
dcRoots(db, order, i, st) ==
  IF i > Len(order) THEN st
  ELSE dcRoots(db, order, i + 1,
               IF order[i] \notin st.visited THEN dcDfs(db, order[i], st)
               ELSE st)

DetectCycles(db, order) ==
  dcRoots(db, order, 1,
          [visited |-> {}, inStack |-> {}, path |-> <<>>,
           cycles |-> <<>>]).cycles

(***************************************************************************)
(* db.go NextTask: the candidates, and the tasks sort.Slice can leave in   *)
(* front (sort.Slice is not stable and the candidates are collected in map *)
(* order, so any candidate that no other candidate is Less than).          *)
(***************************************************************************)
completedIDs(db) == {i \in DOMAIN db : db[i].status = StatusCompleted}

\* A scheduler that forgets the attempt budget.
IsCandidateIgnoringAttempts(db, i) ==
  /\ db[i].status \in {StatusPending, StatusInProgress}
  /\ \A k \in 1..Len(db[i].dependsOn) :
       db[i].dependsOn[k] \in completedIDs(db)

IsCandidate(db, i) ==
  /\ db[i].status \in {StatusPending, StatusInProgress}
  /\ ~HasExhaustedAttempts(db[i])
  /\ \A k \in 1..Len(db[i].dependsOn) :
       db[i].dependsOn[k] \in completedIDs(db)

Candidates(db) == {i \in DOMAIN db : IsCandidate(db, i)}

\* A comparison that ignores the priority.
LessByCreationOnly(x, y) == x.createdAt < y.createdAt

Less(x, y) ==
  IF x.priority # y.priority THEN x.priority < y.priority
  ELSE x.createdAt < y.createdAt

NextTaskResults(db) ==
  {i \in Candidates(db) : \A j \in Candidates(db) : ~Less(db[j], db[i])}

(***************************************************************************)
(* db.go SplitTask.  nows[i] is the clock reading addLocked takes for the  *)
(* i-th subtask.  The loop returns at the first subtask that cannot be     *)
(* added, keeping the subtasks added so far.                               *)
(***************************************************************************)
RECURSIVE splitAdd(_, _, _, _, _)
splitAdd(db, parentID, subtasks, nows, i) ==
  IF i > Len(subtasks) THEN [db |-> db, err |-> ""]
  ELSE LET sub == [subtasks[i] EXCEPT
                     !.parentID = parentID,
                     !.dependsOn = @ \o db[parentID].dependsOn]
           r == addLocked(db, sub, nows[i])
       IN IF r.err # "" THEN [db |-> db, err |-> "adding subtask"]
          ELSE splitAdd(r.db, parentID, subtasks, nows, i + 1)

Retarget(deps, from, to) ==
  [k \in 1..Len(deps) |-> IF deps[k] = from THEN to ELSE deps[k]]

\* A SplitTask that redirects the dependents to the first subtask.
splitTaskToFirst(db, parentID, subtasks, nows) ==
  IF parentID \notin DOMAIN db THEN [db |-> db, err |-> "not found"]
  ELSE LET r == splitAdd(db, parentID, subtasks, nows, 1)
       IN IF r.err # "" THEN r
          ELSE IF Len(subtasks) = 0 THEN [db |-> db, err |-> "panic"]
          ELSE LET moved == [i \in DOMAIN r.db |->
                               [r.db[i] EXCEPT !.dependsOn =
                                  Retarget(@, parentID, subtasks[1].id)]]
               IN [db |-> [moved EXCEPT ![parentID].status = StatusDeferred],
                   err |-> ""]

splitTask(db, parentID, subtasks, nows) ==
  IF parentID \notin DOMAIN db THEN [db |-> db, err |-> "not found"]
  ELSE LET r == splitAdd(db, parentID, subtasks, nows, 1)
       IN IF r.err # "" THEN r
          ELSE IF Len(subtasks) = 0
            THEN [db |-> db, err |-> "panic"]  \* subtasks[len(subtasks)-1]
          ELSE LET lastSub == subtasks[Len(subtasks)].id
                   moved == [i \in DOMAIN r.db |->
                               [r.db[i] EXCEPT !.dependsOn =
                                  Retarget(@, parentID, lastSub)]]
               IN [db |-> [moved EXCEPT ![parentID].status = StatusDeferred],
                   err |-> ""]

(***************************************************************************)
(* db.go MergeTasks.  depOrder is the order in which `range depSet` yields *)
(* the collected upstream ids.                                             *)
(***************************************************************************)
FirstMissing(db, oldIDs) ==
  LET bad == {k \in 1..Len(oldIDs) : oldIDs[k] \notin DOMAIN db}
  IN IF bad = {} THEN 0 ELSE CHOOSE k \in bad : \A m \in bad : k <= m

depSet(db, newID, oldIDs) ==
  {d \in UNION {Range(db[oldIDs[k]].dependsOn) : k \in 1..Len(oldIDs)} :
     d # newID}

RECURSIVE appendMissing(_, _, _)
appendMissing(deps, depOrder, i) ==
  IF i > Len(depOrder) THEN deps
  ELSE appendMissing(IF Contains(deps, depOrder[i]) THEN deps
                     ELSE Append(deps, depOrder[i]),
                     depOrder, i + 1)

\* A pass that removes duplicates but leaves the old ids in place.
RECURSIVE dedupeOnly(_, _, _, _, _)
dedupeOnly(deps, oldIDSet, newID, i, out) ==
  IF i > Len(deps) THEN out
  ELSE dedupeOnly(deps, oldIDSet, newID, i + 1,
                  IF Contains(out, deps[i]) THEN out
                  ELSE Append(out, deps[i]))

RECURSIVE dedupe(_, _, _, _, _)
dedupe(deps, oldIDSet, newID, i, out) ==
  IF i > Len(deps) THEN out
  ELSE LET dep == IF deps[i] \in oldIDSet THEN newID ELSE deps[i]
       IN dedupe(deps, oldIDSet, newID, i + 1,
                 IF Contains(out, dep) THEN out ELSE Append(out, dep))

mergeTasks(db, newTask, oldIDs, depOrder, now) ==
  IF FirstMissing(db, oldIDs) # 0 THEN [db |-> db, err |-> "not found"]
  ELSE LET merged == [newTask EXCEPT
                        !.dependsOn = appendMissing(@, depOrder, 1)]
           oldIDSet == Range(oldIDs)
           rewritten == [i \in DOMAIN db |->
                           [db[i] EXCEPT !.dependsOn =
                              dedupe(@, oldIDSet, newTask.id, 1, <<>>)]]
           removed == [i \in DOMAIN db \ oldIDSet |-> rewritten[i]]
       IN addLocked(removed, merged, now)

(***************************************************************************)
(* sprint.go RunSprint/runIteration, as far as the TaskDB is concerned:    *)
(* the task NextTask picked gets one more attempt, unless the Store could  *)
(* not record the attempt; a successful attempt completes the task.        *)
(***************************************************************************)
runIteration(db, id, outcome) ==
  IF outcome = "store error" THEN db
  ELSE LET success == (outcome = "success")
           attempt == [number |-> Len(db[id].attempts) + 1,
                       success |-> success]
           tried == [db EXCEPT ![id].attempts = Append(@, attempt)]
       IN IF success THEN [tried EXCEPT ![id].status = StatusCompleted]
          ELSE tried

Outcomes == {"success", "failed", "store error"}

(***************************************************************************)
(* State machine.                                                          *)
(***************************************************************************)
EmptyDB == [i \in {} |-> 0]

NoRet == [op |-> "none", err |-> "", id |-> NoID, dep |-> NoID,
          ids |-> <<>>]

\* sprint.go SprintResult
NoResult == [SprintNumber |-> 0, TasksAttempted |-> 0, TasksCompleted |-> 0,
             TasksFailed |-> 0, BudgetExceeded |-> FALSE,
             AbortedEarly |-> FALSE, AbortReason |-> ""]

\* Run has not been called.  exit is what Run returned ("" while it has not
\* returned), started lists the iteration numbers runIteration was called
\* with.
IdleSup == [pc |-> "idle", sprint |-> 0, iteration |-> 0, i |-> 0,
            startIter |-> 0, srIteration |-> 0, consecutiveFails |-> 0,
            result |-> NoResult, sprintErr |-> "", exit |-> "",
            started |-> <<>>, event |-> "", deferred |-> {}]

\* at is the position of Run at which the context was cancelled; "loop ended"
\* when the sprint loop has just run its last sprint.
IdleEnv == [cancelled |-> FALSE, at |-> "", overtime |-> FALSE]

IdleCfg == [SprintSize |-> 0, MaxSprints |-> 0, MaxConsecutiveFails |-> 0,
            Budget |-> [MaxTokens |-> 0, MaxDuration |-> 0,
                        MaxIterations |-> 0],
            JournalEnabled |-> FALSE, AutoCommit |-> FALSE,
            ReviewEnabled |-> FALSE, ReviewAfter |-> "",
            MaxReviewRounds |-> 0, reviewer |-> FALSE, runner |-> "noop",
            prd |-> <<>>]

\* schema.sql: the sessions row of this session (status DEFAULT 'running'),
\* the tasks table (id -> session and status), the attempts table, the sum
\* of resource_usage.estimated_tokens and, in order, the writes made for the
\* session.
EmptyStore == [session |-> "running", tasks |-> EmptyDB, attempts |-> <<>>,
               tokens |-> 0, log |-> <<>>]

\* No TaskDB call is in progress: db.mu is free.
NoSeen == [reader |-> "none", db |-> EmptyDB, pre |-> EmptyDB,
           post |-> EmptyDB, fault |-> FALSE]

IdleConc == [mu |-> "free", op |-> "none", k |-> 0, args |-> <<>>,
             pre |-> EmptyDB, post |-> EmptyDB, seen |-> NoSeen]

Idle ==
  /\ sup = IdleSup
  /\ env = IdleEnv
  /\ cfg = IdleCfg
  /\ store = EmptyStore
  /\ conc = IdleConc

Init ==
  /\ tasks = EmptyDB
  /\ clock = 1
  /\ ret = NoRet
  /\ nops = 0
  /\ Idle

\* The readings time.Now() can give for the tasks of `ts` whose CreatedAt is
\* zero, in order: never earlier than the previous reading.
RECURSIVE NowSeqs(_, _)
NowSeqs(ts, from) ==
  IF Len(ts) = 0 THEN {<<>>}
  ELSE IF ts[1].createdAt # 0
    THEN {<<from>> \o rest : rest \in NowSeqs(Tail(ts), from)}
  ELSE UNION {{<<now>> \o rest : rest \in NowSeqs(Tail(ts), now)} :
                now \in from..MaxTime}

LastNow(nows) == IF Len(nows) = 0 THEN clock ELSE nows[Len(nows)]

IdsOf(ts) == [k \in 1..Len(ts) |-> ts[k].id]

\* db.go Add
Add(task) ==
  \E nows \in NowSeqs(<<task>>, clock) :
    \E r \in {addLocked(tasks, task, nows[1])} :
       /\ tasks' = r.db
       /\ clock' = IF r.err = "" THEN nows[1] ELSE clock
       /\ ret' = [NoRet EXCEPT !.op = "Add", !.err = r.err, !.id = task.id]

\* db.go AddDependency
AddDependency(taskID, dependsOn) ==
  \E r \in {addDependency(tasks, taskID, dependsOn)} :
     /\ tasks' = r.db
     /\ ret' = [NoRet EXCEPT !.op = "AddDependency", !.err = r.err,
                             !.id = taskID, !.dep = dependsOn]
     /\ UNCHANGED clock

\* db.go SplitTask
SplitTask(parentID, subtasks) ==
  \E nows \in NowSeqs(subtasks, clock) :
    \E r \in {splitTask(tasks, parentID, subtasks, nows)} :
       /\ tasks' = r.db
       /\ clock' = IF r.err = "" THEN LastNow(nows) ELSE clock
       /\ ret' = [NoRet EXCEPT !.op = "SplitTask", !.err = r.err,
                               !.id = parentID, !.ids = IdsOf(subtasks)]

\* db.go MergeTasks
MergeTasks(newTask, oldIDs) ==
  \E nows \in NowSeqs(<<newTask>>, clock) :
    \E depOrder \in
         IF FirstMissing(tasks, oldIDs) # 0 THEN {<<>>}
         ELSE Perms(depSet(tasks, newTask.id, oldIDs)) :
      \E r \in {mergeTasks(tasks, newTask, oldIDs, depOrder, nows[1])} :
         /\ tasks' = r.db
         /\ clock' = IF r.err = "" THEN nows[1] ELSE clock
         /\ ret' = [NoRet EXCEPT !.op = "MergeTasks", !.err = r.err,
                                 !.id = newTask.id, !.ids = oldIDs]

\* db.go NextTask: a read; the result is recorded in ret.
NextTask ==
  /\ \/ /\ Candidates(tasks) = {}
        /\ ret' = [NoRet EXCEPT !.op = "NextTask"]
     \/ \E id \in NextTaskResults(tasks) :
          ret' = [NoRet EXCEPT !.op = "NextTask", !.id = id]
  /\ UNCHANGED <<tasks, clock>>

\* sprint.go RunSprint loop body: pick the next task and run one iteration.
RunIteration ==
  \E id \in NextTaskResults(tasks), outcome \in Outcomes :
    /\ tasks' = runIteration(tasks, id, outcome)
    /\ ret' = [NoRet EXCEPT !.op = "RunIteration", !.id = id,
                            !.err = IF outcome = "success" THEN ""
                                    ELSE outcome]
    /\ UNCHANGED clock

(***************************************************************************)
(* Spec: the structural operations, in any order, from the empty DB.       *)
(* Tasks are passed the way importPRD passes them: with an upstream list.  *)
(***************************************************************************)
DagTask(id, deps) == Task(id, StatusPending, 1, deps, 0, 1)

SubInputs ==
  {DagTask(id, deps) : id \in SubIds, deps \in SeqsUpTo(Ids, MaxDeps)}

NewInputs ==
  {DagTask(id, deps) : id \in SubIds, deps \in SeqsUpTo(DagIds, MaxNewDeps)}

CallInputs ==
  {DagTask(id, deps) : id \in DagIds, deps \in SeqsUpTo(DagIds, MaxDeps)}

Counted == nops < MaxOps /\ nops' = nops + 1 /\ UNCHANGED svars

Next ==
  \/ \E task \in CallInputs : Counted /\ Add(task)
  \/ \E t, d \in DagIds : Counted /\ AddDependency(t, d)
  \/ \E p \in DagIds, subs \in SeqsUpTo(CallInputs, MaxSubs) :
       Counted /\ SplitTask(p, subs)
  \/ \E new \in CallInputs, old \in SeqsUpTo(DagIds, MaxOld) \ {<<>>} :
       Counted /\ MergeTasks(new, old)

Spec == Init /\ [][Next]_vars

(***************************************************************************)
(* One SplitTask or MergeTasks call on each DB over DagIds whose upstream  *)
(* lists have up to MaxListLen entries (DBs that Add and AddDependency     *)
(* build).  The subtasks use the ids of SubIds: one that may be taken and  *)
(* two that are free.                                                      *)
(***************************************************************************)
InitStruct ==
  /\ \E D \in SUBSET DagIds : \E f \in [D -> SeqsUpTo(DagIds, MaxListLen)] :
       tasks = [i \in D |-> FillDefaults(DagTask(i, f[i]), 1)]
  /\ clock = 1
  /\ ret = NoRet
  /\ nops = 0
  /\ Idle

NextSplit ==
  /\ ret.op = "none"
  /\ \E p \in DagIds, subs \in SeqsUpTo(SubInputs, MaxSubs) :
       SplitTask(p, subs)
  /\ UNCHANGED <<nops, svars>>

SpecSplit == InitStruct /\ [][NextSplit]_vars

(***************************************************************************)
(* One MergeTasks call on each DB of InitStruct and on each DB over Ids    *)
(* whose upstream lists have up to MaxDeps entries.  The new task uses the *)
(* ids of SubIds.                                                          *)
(***************************************************************************)
InitMerge ==
  /\ \/ \E D \in SUBSET DagIds :
          \E f \in [D -> SeqsUpTo(DagIds, MaxListLen)] :
            tasks = [i \in D |-> FillDefaults(DagTask(i, f[i]), 1)]
     \/ \E D \in SUBSET Ids : \E f \in [D -> SeqsUpTo(Ids, MaxDeps)] :
          tasks = [i \in D |-> FillDefaults(DagTask(i, f[i]), 1)]
  /\ clock = 1
  /\ ret = NoRet
  /\ nops = 0
  /\ Idle

NextMerge ==
  /\ ret.op = "none"
  /\ \E new \in NewInputs, old \in SeqsUpTo(Ids, MaxOld) \ {<<>>} :
       MergeTasks(new, old)
  /\ UNCHANGED <<nops, svars>>

SpecMerge == InitMerge /\ [][NextMerge]_vars

(***************************************************************************)
(* AddDependency calls, in any order, on each acyclic DB over Ids that Add *)
(* builds.                                                                 *)
(***************************************************************************)
NoCycleDetected(db) ==
  \A order \in Perms(DOMAIN db) : DetectCycles(db, order) = <<>>

InitDep ==
  /\ \E D \in SUBSET Ids : \E f \in [D -> SeqsUpTo(Ids, MaxDeps)] :
       /\ tasks = [i \in D |-> FillDefaults(DagTask(i, f[i]), 1)]
       /\ NoCycleDetected(tasks)
  /\ clock = 1
  /\ ret = NoRet
  /\ nops = 0
  /\ Idle

NextDep ==
  /\ \E t, d \in Ids : AddDependency(t, d)
  /\ UNCHANGED <<nops, svars>>

SpecDep == InitDep /\ [][NextDep]_vars

(***************************************************************************)
(* The scheduler: NextTask reads and sprint iterations on each DB of two   *)
(* tasks, as imported from a PRD (any status, no attempt yet).             *)
(***************************************************************************)
SchedAttrs ==
  [status : Statuses, priority : 0..MaxPriority, createdAt : 1..MaxTime,
   dependsOn : SeqsUpTo(SchedIds, MaxDeps), maxAttempts : 1..MaxAttemptsIn]

SchedTask(id, x) ==
  FillDefaults(Task(id, x.status, x.priority, x.dependsOn, x.maxAttempts,
                    x.createdAt), x.createdAt)

InitSched ==
  /\ \E D \in SUBSET SchedIds : \E f \in [D -> SchedAttrs] :
       tasks = [i \in D |-> SchedTask(i, f[i])]
  /\ clock = MaxTime
  /\ ret = NoRet
  /\ nops = 0
  /\ Idle

NextSched ==
  \/ NextTask /\ UNCHANGED <<nops, svars>>
  \/ RunIteration /\ UNCHANGED <<nops, svars>>

SpecSched == InitSched /\ [][NextSched]_vars

(***************************************************************************)
(* The dependency graph, independently of the code's traversals.           *)
(***************************************************************************)
Upstreams(db, S) == UNION {Range(db[i].dependsOn) : i \in S \cap DOMAIN db}

RECURSIVE ReachableFrom(_, _, _)
ReachableFrom(db, S, n) ==
  IF n = 0 THEN S ELSE ReachableFrom(db, S \cup Upstreams(db, S), n - 1)

HasCycle(db) ==
  \E i \in DOMAIN db :
    i \in ReachableFrom(db, Upstreams(db, {i}), Cardinality(DOMAIN db))

Dangling(db) == Upstreams(db, DOMAIN db) \ DOMAIN db

(***************************************************************************)
(* C1 - C3: the scheduler.                                                 *)
(***************************************************************************)
BlockedByUpstream(db, i) ==
  \E u \in Range(db[i].dependsOn) :
    u \notin DOMAIN db \/ db[u].status # StatusCompleted

ReachedMaxAttempts(t) == Len(t.attempts) >= t.maxAttempts

NextTaskReturned == ret.op = "NextTask" /\ DOMAIN tasks # {} /\ ~HasCycle(tasks)

\* C1 as stated: on a non-empty acyclic DB NextTask returns none iff every
\* task is completed or deferred, or blocked by an uncompleted upstream, or
\* has reached max_attempts.
C1_NoneIffAllTerminalBlockedOrExhausted ==
  NextTaskReturned =>
    (ret.id = NoID <=>
       \A i \in DOMAIN tasks :
         \/ tasks[i].status \in {StatusCompleted, StatusDeferred}
         \/ BlockedByUpstream(tasks, i)
         \/ ReachedMaxAttempts(tasks[i]))

\* C1 amended: on a non-empty acyclic DB NextTask returns none iff every
\* task has a status other than pending and in_progress (completed,
\* deferred, failed or blocked), or is blocked by an uncompleted upstream,
\* or has reached max_attempts.
C1_NoneIffNothingSchedulable ==
  NextTaskReturned =>
    (ret.id = NoID <=>
       \A i \in DOMAIN tasks :
         \/ tasks[i].status \notin {StatusPending, StatusInProgress}
         \/ BlockedByUpstream(tasks, i)
         \/ ReachedMaxAttempts(tasks[i]))

\* NextTask returned none on an acyclic DB holding an exhausted pending task
\* and a pending task waiting for it.
C1_Witness ==
  /\ NextTaskReturned
  /\ ret.id = NoID
  /\ \E i, j \in DOMAIN tasks :
       /\ tasks[i].status = StatusPending
       /\ tasks[i].dependsOn = <<>>
       /\ Len(tasks[i].attempts) = tasks[i].maxAttempts
       /\ tasks[j].status = StatusPending
       /\ tasks[j].dependsOn = <<i>>
       /\ tasks[j].attempts = <<>>

ClaimedCandidate(db, i) ==
  /\ db[i].status = StatusPending \/ db[i].status = StatusInProgress
  /\ Len(db[i].attempts) < db[i].maxAttempts
  /\ \A u \in Range(db[i].dependsOn) :
       u \in DOMAIN db /\ db[u].status = StatusCompleted

KeyBefore(x, y) ==
  \/ x.priority < y.priority
  \/ x.priority = y.priority /\ x.createdAt < y.createdAt

\* C2: a task returned by NextTask is a candidate, and no candidate has a
\* smaller (priority, created_at) key.
C2_ReturnsMinimalCandidate ==
  (ret.op = "NextTask" /\ ret.id # NoID) =>
    /\ ret.id \in DOMAIN tasks
    /\ ClaimedCandidate(tasks, ret.id)
    /\ \A j \in DOMAIN tasks :
         ClaimedCandidate(tasks, j) => ~KeyBefore(tasks[j], tasks[ret.id])

\* NextTask returned the lower-priority-number one of two candidates although
\* the other one was created earlier.
C2_Witness ==
  /\ ret.op = "NextTask"
  /\ ret.id # NoID
  /\ \E j \in DOMAIN tasks :
       /\ ClaimedCandidate(tasks, j)
       /\ tasks[ret.id].priority < tasks[j].priority
       /\ tasks[j].createdAt < tasks[ret.id].createdAt

Selected == ret'.op \in {"NextTask", "RunIteration"} /\ ret'.id # NoID

\* C3: the scheduler (NextTask, and the sprint loop through it) never selects
\* a task that already has max_attempts attempts, and no task ever holds more
\* than max_attempts attempts.
C3_AttemptsNeverExceedMax ==
  [][/\ Selected =>
          Len(tasks[ret'.id].attempts) < tasks[ret'.id].maxAttempts
     /\ \A i \in DOMAIN tasks' :
          Len(tasks'[i].attempts) <= tasks'[i].maxAttempts]_vars

\* A task used up its two attempts in two failed iterations and NextTask then
\* passed it over.
C3_Witness ==
  /\ ret.op = "NextTask"
  /\ \E i \in DOMAIN tasks :
       /\ tasks[i].status = StatusPending
       /\ tasks[i].dependsOn = <<>>
       /\ tasks[i].maxAttempts = 2
       /\ Len(tasks[i].attempts) = 2
       /\ ret.id # i

(***************************************************************************)
(* C4, C5: AddDependency.                                                  *)
(***************************************************************************)
\* C4: from an acyclic DB, after any AddDependency calls, accepted or
\* rejected, DetectCycles reports no cycle, in whatever order it visits the
\* tasks.
C4_DetectCyclesStaysEmpty == NoCycleDetected(tasks)

\* AddDependency rejected an edge that would have closed a cycle of three
\* tasks or more.
C4_Witness ==
  /\ ret.op = "AddDependency"
  /\ ret.err = "cycle"
  /\ ret.id # ret.dep
  /\ ~Contains(tasks[ret.dep].dependsOn, ret.id)

\* C5: a successful AddDependency(task, depends_on) leaves depends_on in
\* task's upstream list, and one that fails with the cycle error leaves the
\* DB as it was.
C5_EdgePresentOrStateUnchanged ==
  [][ret'.op = "AddDependency" =>
       /\ ret'.err = "" =>
            /\ ret'.id \in DOMAIN tasks'
            /\ Contains(tasks'[ret'.id].dependsOn, ret'.dep)
       /\ ret'.err = "cycle" => tasks' = tasks]_vars

\* AddDependency appended a new edge to a list that already held one.
C5_Witness ==
  /\ ret.op = "AddDependency"
  /\ ret.err = ""
  /\ Len(tasks[ret.id].dependsOn) >= 2
  /\ tasks[ret.id].dependsOn[Len(tasks[ret.id].dependsOn)] = ret.dep

(***************************************************************************)
(* C6 - C10: SplitTask, MergeTasks and the shape of the graph.             *)
(***************************************************************************)
\* C6: a SplitTask or MergeTasks call that returns an error leaves every
\* task, status and dependency edge as before the call.
C6_FailedSplitMergeChangesNothing ==
  [][(ret'.op \in {"SplitTask", "MergeTasks"} /\ ret'.err # "") =>
       tasks' = tasks]_vars

IsSuffix(s, t) ==
  Len(s) <= Len(t) /\ SubSeq(t, Len(t) - Len(s) + 1, Len(t)) = s

\* C7: after a successful SplitTask(parent, [s1..sk]) the parent is deferred,
\* every si exists and carries the parent's upstreams (after whatever list
\* it came with), and every edge that targeted the parent targets sk.
C7_SplitPreservesEdges ==
  [][(ret'.op = "SplitTask" /\ ret'.err = "") =>
       LET parent == ret'.id
           subs == ret'.ids
           last == subs[Len(subs)]
       IN /\ tasks'[parent].status = StatusDeferred
          /\ \A k \in 1..Len(subs) :
               /\ subs[k] \in DOMAIN tasks'
               /\ subs[k] \notin DOMAIN tasks
               /\ IsSuffix(tasks'[parent].dependsOn,
                           tasks'[subs[k]].dependsOn)
          /\ \A t \in DOMAIN tasks :
               /\ Len(tasks'[t].dependsOn) = Len(tasks[t].dependsOn)
               /\ \A j \in 1..Len(tasks[t].dependsOn) :
                    tasks'[t].dependsOn[j] =
                      IF tasks[t].dependsOn[j] = parent THEN last
                      ELSE tasks[t].dependsOn[j]]_vars

\* A parent with an upstream that exists (and is not the parent) was split
\* in two and another task, which depended on the parent, now depends on the
\* second subtask.
C7_Witness ==
  /\ ret.op = "SplitTask"
  /\ ret.err = ""
  /\ Len(ret.ids) = 2
  /\ tasks[ret.id].dependsOn # <<>>
  /\ Range(tasks[ret.id].dependsOn) \subseteq
       DOMAIN tasks \ (Range(ret.ids) \cup {ret.id})
  /\ \E t \in DOMAIN tasks \ (Range(ret.ids) \cup {ret.id}) :
       /\ t \notin Range(tasks[ret.id].dependsOn)
       /\ tasks[t].dependsOn = <<ret.ids[2]>>

Merged == ret'.op = "MergeTasks" /\ ret'.err = ""

RetargetedToNew(old, new) ==
  \A t \in DOMAIN tasks \ old :
    /\ t \in DOMAIN tasks'
    /\ Range(tasks'[t].dependsOn) \cap (old \ {new}) = {}
    /\ Range(tasks[t].dependsOn) \cap old # {} =>
         Contains(tasks'[t].dependsOn, new)
    /\ Range(tasks[t].dependsOn) \ old \subseteq Range(tasks'[t].dependsOn)

\* C8 as stated: after a successful MergeTasks(new, old_ids) no old id
\* exists, new exists with the old tasks' upstreams among its upstreams,
\* every edge that targeted an old id targets new, and no upstream list
\* holds a duplicate.
C8_MergeAsStated ==
  [][Merged =>
       LET new == ret'.id
           old == Range(ret'.ids)
       IN /\ \A o \in old : o \notin DOMAIN tasks'
          /\ new \in DOMAIN tasks'
          /\ Upstreams(tasks, old) \subseteq Range(tasks'[new].dependsOn)
          /\ RetargetedToNew(old, new)
          /\ \A t \in DOMAIN tasks' : NoDup(tasks'[t].dependsOn)]_vars

\* C8 amended: after a successful MergeTasks(new, old_ids) no old id other
\* than new's own id exists, new exists with the old tasks' upstreams other
\* than its own id among its upstreams, every edge of a remaining task that
\* targeted an old id targets new, and no upstream list other than new's
\* holds a duplicate.
C8_MergeRedirectsAndDedupes ==
  [][Merged =>
       LET new == ret'.id
           old == Range(ret'.ids)
       IN /\ \A o \in old \ {new} : o \notin DOMAIN tasks'
          /\ new \in DOMAIN tasks'
          /\ Upstreams(tasks, old) \ {new} \subseteq
               Range(tasks'[new].dependsOn)
          /\ RetargetedToNew(old, new)
          /\ \A t \in DOMAIN tasks' \ {new} : NoDup(tasks'[t].dependsOn)]_vars

\* Two tasks were merged into a fresh one whose upstreams all exist, and
\* another task, which depended on an old task, now lists the new task once.
C8_Witness ==
  /\ ret.op = "MergeTasks"
  /\ ret.err = ""
  /\ Len(ret.ids) = 2
  /\ ret.ids[1] # ret.ids[2]
  /\ ret.id \notin Range(ret.ids)
  /\ tasks[ret.id].dependsOn # <<>>
  /\ Range(tasks[ret.id].dependsOn) \subseteq DOMAIN tasks \ {ret.id}
  /\ \E t \in DOMAIN tasks \ {ret.id} :
       /\ t \notin Range(tasks[ret.id].dependsOn)
       /\ tasks[t].dependsOn = <<ret.id>>

\* C9: from the empty DB, after any Add, AddDependency, SplitTask and
\* MergeTasks calls, the dependency graph has no cycle and no self-loop.
C9_GraphStaysAcyclic == ~HasCycle(tasks)

\* C10: after any Add, AddDependency, SplitTask and MergeTasks calls, every
\* upstream id listed on a task is the id of a task in the DB.
C10_NoDanglingEdge == Dangling(tasks) = {}

(***************************************************************************)
(* C11: goroutines sharing one TaskDB.  SplitTask and MergeTasks hold      *)
(* db.mu from their first line to their return and change db.Tasks one     *)
(* statement at a time; NextTask takes db.mu; Get, IsComplete, Stats,      *)
(* DetectCycles and Save read db.Tasks without taking it.  A read that     *)
(* runs while a writer is at work is a data race: it sees the map as the   *)
(* writer has left it so far, or the runtime stops the program             *)
(* ("concurrent map read and map write").  Up to MaxConcCalls calls of     *)
(* SplitTask and MergeTasks are made.                                      *)
(***************************************************************************)
UnlockedReaders == {"Get", "IsComplete", "Stats", "DetectCycles", "Save"}

\* db.go SplitTask, statement by statement: the k-th pass of the subtask
\* loop for k <= len(subtasks), then the redirection of the dependents and
\* the parent's new status.
splitStep(db, parentID, subtasks, now, k) ==
  IF k <= Len(subtasks)
    THEN LET sub == [subtasks[k] EXCEPT
                       !.parentID = parentID,
                       !.dependsOn = @ \o db[parentID].dependsOn]
             r == addLocked(db, sub, now)
         IN [db |-> r.db, done |-> r.err # ""]
  ELSE LET lastSub == subtasks[Len(subtasks)].id
           moved == [i \in DOMAIN db |->
                       [db[i] EXCEPT !.dependsOn =
                          Retarget(@, parentID, lastSub)]]
       IN [db |-> [moved EXCEPT ![parentID].status = StatusDeferred],
           done |-> TRUE]

\* db.go MergeTasks, statement by statement, after the old ids were looked
\* up and newTask.DependsOn was extended: the rewrite of the dependents, the
\* deletion of the old tasks, the insertion of the new task.
mergeStep(db, merged, oldIDs, now, k) ==
  IF k = 1
    THEN [db |-> [i \in DOMAIN db |->
                    [db[i] EXCEPT !.dependsOn =
                       dedupe(@, Range(oldIDs), merged.id, 1, <<>>)]],
          done |-> FALSE]
  ELSE IF k = 2
    THEN [db |-> [i \in DOMAIN db \ Range(oldIDs) |-> db[i]],
          done |-> FALSE]
  ELSE [db |-> addLocked(db, merged, now).db, done |-> TRUE]

ConcInputs == {DagTask(id, <<>>) : id \in {"a", "d", "e"}}

InitConc ==
  /\ \E D \in SUBSET DagIds : \E f \in [D -> SeqsUpTo(DagIds, MaxDeps)] :
       tasks = [i \in D |-> FillDefaults(DagTask(i, f[i]), 1)]
  /\ clock = 1
  /\ ret = NoRet
  /\ nops = 0
  /\ Idle

\* SplitTask: db.mu.Lock() and the lookup of the parent.
ConcBeginSplit ==
  \E p \in DOMAIN tasks, subs \in SeqsUpTo(ConcInputs, MaxSubs) \ {<<>>} :
    /\ conc.mu = "free"
    /\ nops < MaxConcCalls
    /\ nops' = nops + 1
    /\ conc' = [conc EXCEPT
         !.mu = "held", !.op = "SplitTask", !.k = 1,
         !.args = [parent |-> p, subs |-> subs],
         !.pre = tasks,
         !.post = splitTask(tasks, p, subs,
                            [j \in 1..Len(subs) |-> clock]).db]
    /\ UNCHANGED <<tasks, clock, ret, sup, env, cfg, store>>

\* MergeTasks: db.mu.Lock(), the lookup of the old ids and the extension of
\* newTask.DependsOn.
ConcBeginMerge ==
  \E new \in ConcInputs, old \in SeqsUpTo(DagIds, MaxOld) \ {<<>>} :
    /\ conc.mu = "free"
    /\ nops < MaxConcCalls
    /\ nops' = nops + 1
    /\ FirstMissing(tasks, old) = 0
    /\ \E depOrder \in Perms(depSet(tasks, new.id, old)) :
         conc' = [conc EXCEPT
           !.mu = "held", !.op = "MergeTasks", !.k = 1,
           !.args = [merged |-> [new EXCEPT !.dependsOn =
                                   appendMissing(@, depOrder, 1)],
                     old |-> old],
           !.pre = tasks,
           !.post = mergeTasks(tasks, new, old, depOrder, clock).db]
    /\ UNCHANGED <<tasks, clock, ret, sup, env, cfg, store>>

\* The next statement of the call that holds db.mu; the deferred Unlock
\* after the last one.
ConcStep ==
  /\ conc.mu = "held"
  /\ \E r \in {IF conc.op = "SplitTask"
                 THEN splitStep(tasks, conc.args.parent, conc.args.subs,
                                clock, conc.k)
               ELSE mergeStep(tasks, conc.args.merged, conc.args.old,
                              clock, conc.k)} :
       /\ tasks' = r.db
       /\ conc' = IF r.done
                    THEN [conc EXCEPT !.mu = "free", !.op = "none", !.k = 0]
                  ELSE [conc EXCEPT !.k = @ + 1]
  /\ UNCHANGED <<clock, ret, nops, sup, env, cfg, store>>

\* Get, IsComplete, Stats, DetectCycles, Save: no db.mu.
ConcRead ==
  \E reader \in UnlockedReaders,
     fault \in IF conc.mu = "held" THEN BOOLEAN ELSE {FALSE} :
    /\ conc' = [conc EXCEPT !.seen =
         [reader |-> reader, db |-> tasks, fault |-> fault,
          pre |-> IF conc.mu = "held" THEN conc.pre ELSE tasks,
          post |-> IF conc.mu = "held" THEN conc.post ELSE tasks]]
    /\ UNCHANGED <<tasks, clock, ret, nops, sup, env, cfg, store>>

\* NextTask: db.mu.Lock() first.
ConcNextTask ==
  /\ conc.mu = "free"
  /\ conc' = [conc EXCEPT !.seen =
       [reader |-> "NextTask", db |-> tasks, fault |-> FALSE,
        pre |-> tasks, post |-> tasks]]
  /\ UNCHANGED <<tasks, clock, ret, nops, sup, env, cfg, store>>

NextConc ==
  \/ ConcBeginSplit
  \/ ConcBeginMerge
  \/ ConcStep
  \/ ConcRead
  \/ ConcNextTask

SpecConc == InitConc /\ [][NextConc]_vars

\* C11: with TaskDB operations running concurrently, whatever an operation
\* (Get, IsComplete, Stats, DetectCycles, Save, NextTask) reads is the DB as
\* it was before a SplitTask or MergeTasks in progress, or as that call
\* leaves it: never a DB the call has only partly changed, and never a
\* faulting read.
C11_NoPartlyAppliedStateObserved ==
  /\ ~conc.seen.fault
  /\ conc.seen.db \in {conc.seen.pre, conc.seen.post}

\* The part of C11 the mutex does give: NextTask, which locks, only ever
\* reads a DB no call is working on.
C11_LockedReaderSeesNoPartialState ==
  conc.seen.reader = "NextTask" => C11_NoPartlyAppliedStateObserved

(***************************************************************************)
(* The Store (internal/store) as the supervisor uses it.  The database     *)
(* file .agentbox/agentbox.db outlives a session, so the tasks table may   *)
(* hold rows of an earlier session; tasks.id is the primary key of the     *)
(* whole table.                                                            *)
(***************************************************************************)
sessionID == 1
EarlierSession == 0

Row(kind, what, it) == [kind |-> kind, what |-> what, it |-> it]

Logged(st, kind, what, it) == [st EXCEPT !.log = Append(@, Row(kind, what, it))]

\* UpdateSessionStatus that writes nothing.
KeepSessionStatus(st, status) == st

\* store.UpdateSessionStatus
UpdateSessionStatus(st, status) == [st EXCEPT !.session = status]

\* store.InsertTask: a plain INSERT, refused when the id is already a row.
InsertTask(st, id, session, status) ==
  IF id \in DOMAIN st.tasks
    THEN [store |-> st, err |-> "constraint"]
    ELSE [store |->
            [st EXCEPT !.tasks =
               [i \in DOMAIN st.tasks \cup {id} |->
                  IF i = id THEN [session |-> session, status |-> status]
                  ELSE st.tasks[i]]],
          err |-> ""]

\* store.AddDependency: both ends reference tasks(id), foreign keys are on.
StoreAddDependency(st, taskID, dependsOn) ==
  IF {taskID, dependsOn} \subseteq DOMAIN st.tasks THEN "" ELSE "constraint"

\* store.UpdateTaskStatus: UPDATE ... WHERE id = ?, no row is no error.
UpdateTaskStatus(st, id, status) ==
  IF id \in DOMAIN st.tasks
    THEN [st EXCEPT !.tasks[id].status = status]
    ELSE st

Unset == "unset"

\* The row store.RecordAttempt inserts for the attempt runIteration hands it:
\* Success, ErrorMsg, DurationMs and CompletedAt are still unset there.
AttemptRow(taskID, number, iteration) ==
  [task |-> taskID, number |-> number, iteration |-> iteration,
   success |-> Unset, completed |-> FALSE, transcript |-> FALSE]

\* store.RecordAttempt: attempts.task_id references tasks(id).
RecordAttempt(st, row, ioError) ==
  IF ioError \/ row.task \notin DOMAIN st.tasks
    THEN [store |-> st, err |-> "insert failed", id |-> 0]
    ELSE [store |-> Logged([st EXCEPT !.attempts = Append(@, row)],
                           "attempt", "insert", row.iteration),
          err |-> "", id |-> Len(st.attempts) + 1]

\* store.SaveTranscript: the only UPDATE of the attempts table.
SaveTranscript(st, attemptID, it) ==
  Logged([st EXCEPT !.attempts[attemptID].transcript = TRUE],
         "transcript", "update", it)

\* store.RecordUsage through metrics.Collector.RecordUsage
RecordUsage(st, estimatedTokens, it) ==
  Logged([st EXCEPT !.tokens = @ + estimatedTokens], "usage", "insert", it)

\* store.TotalUsage through metrics.Collector.TotalUsage
TotalUsage(st) == st.tokens

\* journal.Add / store.AddJournalEntry
AddJournalEntry(st, what, it) == Logged(st, "journal", what, it)

\* store.ListTasks(sessionID)
ListTasks(st) == {i \in DOMAIN st.tasks : st.tasks[i].session = sessionID}

(***************************************************************************)
(* metrics/budget.go Check.  overtime says that time.Since(startTime) has  *)
(* reached MaxDuration.                                                    *)
(***************************************************************************)
\* A check that never finds the budget exceeded.
CheckNothing(budget, tokensUsed, overtime, iterationsUsed) ==
  [Exceeded |-> FALSE, Reason |-> ""]

\* Check with the iteration limit tested before the other two.
CheckIterationsFirst(budget, tokensUsed, overtime, iterationsUsed) ==
  IF budget.MaxIterations > 0 /\ iterationsUsed >= budget.MaxIterations
    THEN [Exceeded |-> TRUE, Reason |-> "iteration budget exceeded"]
  ELSE IF budget.MaxTokens > 0 /\ tokensUsed >= budget.MaxTokens
    THEN [Exceeded |-> TRUE, Reason |-> "token budget exceeded"]
  ELSE IF budget.MaxDuration > 0 /\ overtime
    THEN [Exceeded |-> TRUE, Reason |-> "duration budget exceeded"]
  ELSE [Exceeded |-> FALSE, Reason |-> ""]

Check(budget, tokensUsed, overtime, iterationsUsed) ==
  IF budget.MaxTokens > 0 /\ tokensUsed >= budget.MaxTokens
    THEN [Exceeded |-> TRUE, Reason |-> "token budget exceeded"]
  ELSE IF budget.MaxDuration > 0 /\ overtime
    THEN [Exceeded |-> TRUE, Reason |-> "duration budget exceeded"]
  ELSE IF budget.MaxIterations > 0 /\ iterationsUsed >= budget.MaxIterations
    THEN [Exceeded |-> TRUE, Reason |-> "iteration budget exceeded"]
  ELSE [Exceeded |-> FALSE, Reason |-> ""]

\* taskdb IsComplete
IsComplete(db) ==
  /\ \A i \in DOMAIN db : db[i].status \in {StatusCompleted, StatusDeferred}
  /\ DOMAIN db # {}

(***************************************************************************)
(* sprint.go runIteration, whole: the TaskDB side is runIteration above,   *)
(* the Store side is the sequence of writes below.  outcome is what the    *)
(* agent runner returns, or a failing INSERT of the attempt row.           *)
(***************************************************************************)
iterate(db, st, c, id, it, outcome) ==
  LET s1 == IF c.JournalEnabled THEN AddJournalEntry(st, "task_start", it)
            ELSE st
      ra == RecordAttempt(s1, AttemptRow(id, Len(db[id].attempts) + 1, it),
                          outcome = "store error")
  IN IF ra.err # ""
       THEN [db |-> db, store |-> s1, success |-> FALSE]
       ELSE
         LET success == (outcome = "success")
             s2 == RecordUsage(ra.store, 0, it)
             s3 == SaveTranscript(s2, ra.id, it)
             s4 == IF success /\ c.AutoCommit
                     THEN Logged(s3, "commit", "commit", it) ELSE s3
             s5 == IF success
                     THEN Logged(UpdateTaskStatus(s4, id, StatusCompleted),
                                 "status", "update", it)
                     ELSE s4
             s6 == IF c.JournalEnabled
                     THEN AddJournalEntry(
                            s5, IF success THEN "task_complete"
                                ELSE "task_failed", it)
                     ELSE s5
         IN [db |-> runIteration(db, id, outcome), store |-> s6,
             success |-> success]

(***************************************************************************)
(* retro/analyzer.go detectPatterns and generateRecommendations, and       *)
(* adaptive.go Apply, as far as they reach task statuses: a task of the    *)
(* session with three or more attempt rows flagged as failed is deferred,  *)
(* in the Store only.                                                      *)
(***************************************************************************)
failCount(st, id) ==
  Cardinality({k \in 1..Len(st.attempts) :
                 st.attempts[k].task = id /\ st.attempts[k].success = "false"})

HighSeverityFailCount == 3

DeferRecommendations(st) ==
  {id \in ListTasks(st) : failCount(st, id) >= HighSeverityFailCount}

Apply(st, recs) ==
  [st EXCEPT !.tasks =
     [i \in DOMAIN st.tasks |->
        IF i \in recs THEN [st.tasks[i] EXCEPT !.status = StatusDeferred]
        ELSE st.tasks[i]]]

\* RunSprint lines 150-169: Analyze, SaveReport, Apply, the retro entry.
retrospective(st, c, it) ==
  LET s1 == Logged(st, "report", "insert", 0)
      s2 == Apply(s1, DeferRecommendations(s1))
  IN IF c.JournalEnabled THEN AddJournalEntry(s2, "sprint_retro", it) ELSE s2

(***************************************************************************)
(* supervisor.go runReviewGate.  rounds[k] is what the reviewer answers in *)
(* round k: an error, an approval, or findings of which fixes holds the    *)
(* ids fmt.Sprintf("review-fix-%d-%d", round, UnixNano()%10000) gives to   *)
(* the blockers.  The errors of taskDB.Add and store.InsertTask are        *)
(* dropped.                                                                *)
(***************************************************************************)
FixPriority == 0
FixMaxAttempts == 2

RECURSIVE injectFixes(_, _, _, _)
injectFixes(db, st, fixes, k) ==
  IF k > Len(fixes) THEN [db |-> db, store |-> st]
  ELSE LET fixTask == Task(fixes[k], StatusPending, FixPriority, <<>>,
                           FixMaxAttempts, 0)
           a == addLocked(db, fixTask, Cardinality(DOMAIN db) + 1)
           ins == InsertTask(st, fixes[k], sessionID, "pending")
       IN injectFixes(a.db, ins.store, fixes, k + 1)

RECURSIVE reviewRounds(_, _, _, _, _)
reviewRounds(db, st, c, rounds, round) ==
  IF round > c.MaxReviewRounds THEN [db |-> db, store |-> st]
  ELSE
    LET r == rounds[round]
    IN IF r.err THEN [db |-> db, store |-> st]
       ELSE
         LET s1 == Logged(st, "review", "insert", 0)
             s2 == IF c.JournalEnabled
                     THEN AddJournalEntry(s1, "review_received", 0) ELSE s1
         IN IF r.approved \/ round >= c.MaxReviewRounds
              THEN [db |-> db, store |-> s2]
              ELSE LET f == injectFixes(db, s2, r.fixes, 1)
                   IN reviewRounds(f.db, f.store, c, rounds, round + 1)

runReviewGate(db, st, c, diffErr, rounds) ==
  IF ~c.reviewer \/ diffErr THEN [db |-> db, store |-> st]
  ELSE reviewRounds(db, st, c, rounds, 1)

(***************************************************************************)
(* supervisor.go importPRD: each task of the PRD goes to the TaskDB, then  *)
(* to the Store, then its dependencies to the Store; the first error ends  *)
(* the import.  The k-th task is created at time k.                        *)
(***************************************************************************)
PrdTask(id, status, dependsOn) ==
  [id |-> id, status |-> status, priority |-> 1, dependsOn |-> dependsOn]

RECURSIVE importPRD(_, _, _, _)
importPRD(db, st, prd, k) ==
  IF k > Len(prd) THEN [db |-> db, store |-> st, err |-> ""]
  ELSE
    LET t == prd[k]
        status == IF t.status = "" THEN StatusPending ELSE t.status
        task == [Task(t.id, status, t.priority, t.dependsOn,
                      DefaultMaxAttempts, 0)
                   EXCEPT !.complexity = DefaultComplexity]
        a == addLocked(db, task, k)
        ins == InsertTask(st, t.id, sessionID, status)
    IN IF a.err # "" THEN [db |-> db, store |-> st, err |-> "taskDB"]
       ELSE IF ins.err # ""
         THEN [db |-> a.db, store |-> st, err |-> "store"]
       ELSE IF \E d \in Range(t.dependsOn) :
                 StoreAddDependency(ins.store, t.id, d) # ""
         THEN [db |-> a.db, store |-> ins.store, err |-> "dependency"]
       ELSE importPRD(a.db, ins.store, prd, k + 1)

(***************************************************************************)
(* Supervisor.Run and SprintRunner.RunSprint as a state machine.           *)
(*                                                                         *)
(* sup.pc is the position: "start" (Run not yet in setup), "loop" (head of *)
(* the sprint loop of Run), "sprint" (head of the iteration loop of        *)
(* RunSprint), "retro" (after that loop), "afterSprint" (RunSprint has     *)
(* returned to Run), "finalize", "done" (Run has returned) and "returned"  *)
(* (RunSprint has returned to a caller other than Run).  sup.started lists *)
(* the iteration numbers runIteration was called with, sup.event names a   *)
(* sprint end or a review gate that the last step completed, sup.deferred  *)
(* holds the tasks the adaptive controller has deferred.                   *)
(***************************************************************************)
MaxSprintSize == 3
MaxMaxSprints == 2
MaxMaxFails == 2
MaxBlockers == 1
DefaultMaxReviewRounds == 2
FixIds == {"f1"}

ErrCanceled == "context canceled"
ErrSetup == "setup"

NoBudget == [MaxTokens |-> 0, MaxDuration |-> 0, MaxIterations |-> 0]

Budgets ==
  {NoBudget, [NoBudget EXCEPT !.MaxIterations = 2],
   [NoBudget EXCEPT !.MaxDuration = 1]}

Prds ==
  {<<PrdTask("a", "", <<>>)>>,
   <<PrdTask("a", StatusCompleted, <<>>)>>,
   <<PrdTask("a", "", <<>>), PrdTask("b", "", <<"a">>)>>,
   <<PrdTask("a", "", <<"b">>), PrdTask("b", "", <<>>)>>,
   <<PrdTask("a", "", <<>>), PrdTask("a", "", <<>>)>>}

\* The review settings: no reviewer, or one that runs after each sprint or
\* before the pull request.
Reviews == {"", "sprint", "pr"}

\* Supervisor.Run hands NewSprintRunner a nil runner, which makes it the
\* NoopAgentRunner.
RunConfigs ==
  {[SprintSize |-> ss, MaxSprints |-> ms, MaxConsecutiveFails |-> mf,
    Budget |-> b, JournalEnabled |-> j, AutoCommit |-> TRUE,
    ReviewEnabled |-> rv # "", ReviewAfter |-> rv,
    MaxReviewRounds |-> DefaultMaxReviewRounds, reviewer |-> rv # "",
    runner |-> "noop", prd |-> prd] :
     ss \in 1..MaxSprintSize, ms \in 1..MaxMaxSprints, mf \in 1..MaxMaxFails,
     b \in Budgets, j \in BOOLEAN, rv \in Reviews, prd \in Prds}

\* A SprintRunner built with an agent runner and called on its own.
SprintConfigs ==
  {[SprintSize |-> ss, MaxSprints |-> 1, MaxConsecutiveFails |-> mf,
    Budget |-> b, JournalEnabled |-> j, AutoCommit |-> ac,
    ReviewEnabled |-> FALSE, ReviewAfter |-> "",
    MaxReviewRounds |-> DefaultMaxReviewRounds, reviewer |-> FALSE,
    runner |-> "agent", prd |-> prd] :
     ss \in 1..MaxSprintSize, mf \in 1..MaxMaxFails, b \in Budgets,
     j \in BOOLEAN, ac \in BOOLEAN, prd \in Prds}

\* The task rows an earlier session left in the database file.
EarlierRows ==
  {EmptyDB} \cup
  {[i \in {f} |-> [session |-> EarlierSession, status |-> StatusPending]] :
     f \in FixIds}

InitRun ==
  /\ tasks = EmptyDB
  /\ clock = 0
  /\ ret = NoRet
  /\ nops = 0
  /\ conc = IdleConc
  /\ env = IdleEnv
  /\ cfg \in RunConfigs \cup SprintConfigs
  /\ store \in {[EmptyStore EXCEPT !.tasks = rows] : rows \in EarlierRows}
  /\ sup = [IdleSup EXCEPT !.pc = "start"]

\* NoopAgentRunner.RunTask always fails; an agent runner may succeed.
RunnerOutcomes(c) ==
  IF c.runner = "noop" THEN {"failed", "store error"} ELSE Outcomes

(***************************************************************************)
(* The head of one pass of RunSprint's loop, lines 98-134: what the pass   *)
(* does, given the context, the budget status, the failure streak and      *)
(* whether NextTask returned nil.                                          *)
(***************************************************************************)
\* A pass that does not look at the context.
passIgnoringContext(cancelled, exceeded, consecutiveFails, maxFails, noTask) ==
  IF exceeded THEN "budget"
  ELSE IF consecutiveFails >= maxFails THEN "fails"
  ELSE IF noTask THEN "no task"
  ELSE "run"

\* A pass that does not look at the budget.
passIgnoringBudget(cancelled, exceeded, consecutiveFails, maxFails, noTask) ==
  IF cancelled THEN "cancelled"
  ELSE IF consecutiveFails >= maxFails THEN "fails"
  ELSE IF noTask THEN "no task"
  ELSE "run"

\* A pass that allows one failure too many.
passOneMoreFail(cancelled, exceeded, consecutiveFails, maxFails, noTask) ==
  IF cancelled THEN "cancelled"
  ELSE IF exceeded THEN "budget"
  ELSE IF consecutiveFails > maxFails THEN "fails"
  ELSE IF noTask THEN "no task"
  ELSE "run"

pass(cancelled, exceeded, consecutiveFails, maxFails, noTask) ==
  IF cancelled THEN "cancelled"
  ELSE IF exceeded THEN "budget"
  ELSE IF consecutiveFails >= maxFails THEN "fails"
  ELSE IF noTask THEN "no task"
  ELSE "run"

\* The budget status RunSprint asks for at the head of a pass.
BudgetStatus(c, st, e, iteration) ==
  Check(c.Budget, TotalUsage(st), e.overtime, iteration)

\* Run line 140 without the assignment.
KeepIteration(iteration, current) == iteration

\* Run line 140: iteration = runner.CurrentIteration()
AdvanceIteration(iteration, current) == current

RunIdle == UNCHANGED <<clock, ret, nops, conc, cfg>>

\* RunSprint lines 85-89, entered from Run or from another caller.
BeginSprint(s, sprintNum, startIter) ==
  [s EXCEPT !.pc = "sprint", !.sprint = sprintNum, !.i = 0,
            !.startIter = startIter, !.srIteration = startIter,
            !.consecutiveFails = 0, !.sprintErr = "", !.event = "",
            !.result = [NoResult EXCEPT !.SprintNumber = sprintNum]]

\* Where RunSprint returns to.
Caller(c) == IF c.runner = "noop" THEN "afterSprint" ELSE "returned"

\* Run lines 105-110: setup (the git steps may fail, then importPRD), the
\* session start entry, iteration := 1 and sprint := 1.
Setup ==
  /\ sup.pc = "start"
  /\ cfg.runner = "noop"
  /\ \E gitErr \in BOOLEAN :
       \E r \in {importPRD(tasks, store, cfg.prd, 1)} :
         IF gitErr
           THEN /\ tasks' = tasks
                /\ store' = UpdateSessionStatus(store, "failed")
                /\ sup' = [sup EXCEPT !.pc = "done", !.exit = ErrSetup]
         ELSE IF r.err # ""
           THEN /\ tasks' = r.db
                /\ store' = UpdateSessionStatus(r.store, "failed")
                /\ sup' = [sup EXCEPT !.pc = "done", !.exit = ErrSetup]
         ELSE /\ tasks' = r.db
              /\ store' = IF cfg.JournalEnabled
                            THEN AddJournalEntry(r.store, "reflection", 0)
                            ELSE r.store
              /\ sup' = [sup EXCEPT !.pc = "loop", !.sprint = 1,
                                    !.iteration = 1]
  /\ UNCHANGED env
  /\ RunIdle

\* A caller other than Run: it fills the TaskDB and the Store with the same
\* tasks and calls RunSprint(ctx, 1, 1) on a runner of its own.
CallRunSprint ==
  /\ sup.pc = "start"
  /\ cfg.runner = "agent"
  /\ \E r \in {importPRD(tasks, store, cfg.prd, 1)} :
       /\ r.err = ""
       /\ tasks' = r.db
       /\ store' = r.store
       /\ sup' = BeginSprint(sup, 1, 1)
  /\ UNCHANGED env
  /\ RunIdle

\* Run lines 111-129: the loop condition, the context, IsComplete, and the
\* call of RunSprint up to its loop.
LoopHead ==
  /\ sup.pc = "loop"
  /\ IF sup.sprint > cfg.MaxSprints
       THEN /\ sup' = [sup EXCEPT !.pc = "finalize", !.event = ""]
            /\ store' = store
     ELSE IF env.cancelled
       THEN /\ store' = UpdateSessionStatus(store, "cancelled")
            /\ sup' = [sup EXCEPT !.pc = "done", !.exit = ErrCanceled,
                                  !.event = ""]
     ELSE IF IsComplete(tasks)
       THEN /\ sup' = [sup EXCEPT !.pc = "finalize", !.event = ""]
            /\ store' = store
     ELSE /\ sup' = BeginSprint(sup, sup.sprint, sup.iteration)
          /\ store' = store
  /\ UNCHANGED <<tasks, env>>
  /\ RunIdle

\* One pass of RunSprint's loop, lines 98-148, runIteration included.
SprintPass ==
  /\ sup.pc = "sprint"
  /\ IF sup.i >= cfg.SprintSize
       THEN /\ sup' = [sup EXCEPT !.pc = "retro"]
            /\ UNCHANGED <<tasks, store>>
       ELSE
         \E status \in {BudgetStatus(cfg, store, env, sup.srIteration)} :
         \E what \in {pass(env.cancelled, status.Exceeded,
                           sup.consecutiveFails, cfg.MaxConsecutiveFails,
                           NextTaskResults(tasks) = {})} :
           CASE what = "cancelled" ->
                  /\ sup' = [sup EXCEPT !.pc = Caller(cfg),
                               !.sprintErr = ErrCanceled,
                               !.result.AbortedEarly = TRUE,
                               !.result.AbortReason = "context cancelled"]
                  /\ UNCHANGED <<tasks, store>>
             [] what = "budget" ->
                  /\ sup' = [sup EXCEPT !.pc = "retro",
                               !.result.BudgetExceeded = TRUE,
                               !.result.AbortedEarly = TRUE,
                               !.result.AbortReason = status.Reason]
                  /\ UNCHANGED <<tasks, store>>
             [] what = "fails" ->
                  /\ sup' = [sup EXCEPT !.pc = "retro",
                               !.result.AbortedEarly = TRUE,
                               !.result.AbortReason = "consecutive failures"]
                  /\ UNCHANGED <<tasks, store>>
             [] what = "no task" ->
                  /\ sup' = [sup EXCEPT !.pc = "retro"]
                  /\ UNCHANGED <<tasks, store>>
             [] what = "run" ->
                  \E id \in NextTaskResults(tasks) :
                  \E outcome \in RunnerOutcomes(cfg) :
                  \E r \in {iterate(tasks, store, cfg, id, sup.srIteration,
                                    outcome)} :
                    /\ tasks' = r.db
                    /\ store' = r.store
                    /\ sup' = [sup EXCEPT
                         !.i = @ + 1,
                         !.srIteration = @ + 1,
                         !.started = Append(@, sup.srIteration),
                         !.consecutiveFails = IF r.success THEN 0 ELSE @ + 1,
                         !.result.TasksAttempted = @ + 1,
                         !.result.TasksCompleted =
                            IF r.success THEN @ + 1 ELSE @,
                         !.result.TasksFailed =
                            IF r.success THEN @ ELSE @ + 1]
  /\ UNCHANGED env
  /\ RunIdle

\* RunSprint lines 150-171: the retrospective, then return result, nil.
Retro ==
  /\ sup.pc = "retro"
  /\ store' = retrospective(store, cfg, sup.srIteration)
  /\ sup' = [sup EXCEPT !.pc = Caller(cfg), !.event = "sprint end",
                        !.deferred = @ \cup DeferRecommendations(store)]
  /\ UNCHANGED <<tasks, env>>
  /\ RunIdle

ReviewInputs ==
  {[err |-> TRUE, approved |-> FALSE, fixes |-> <<>>],
   [err |-> FALSE, approved |-> TRUE, fixes |-> <<>>]} \cup
  {[err |-> FALSE, approved |-> FALSE, fixes |-> f] :
     f \in SeqsUpTo(FixIds, MaxBlockers)}

\* Run lines 131-153 and the loop's sprint++.
AfterSprint ==
  /\ sup.pc = "afterSprint"
  /\ IF sup.sprintErr # ""
       THEN /\ sup' = IF sup.result.BudgetExceeded
                        THEN [sup EXCEPT !.pc = "finalize", !.event = ""]
                        ELSE [sup EXCEPT !.pc = "loop", !.sprint = @ + 1,
                                         !.event = ""]
            /\ UNCHANGED <<tasks, store>>
     ELSE IF sup.result.BudgetExceeded
       THEN /\ sup' = [sup EXCEPT
                         !.pc = "finalize", !.event = "",
                         !.iteration = AdvanceIteration(@, sup.srIteration)]
            /\ UNCHANGED <<tasks, store>>
     ELSE IF cfg.ReviewEnabled /\ cfg.ReviewAfter = "sprint"
       THEN \E diffErr \in BOOLEAN :
            \E rounds \in [1..cfg.MaxReviewRounds -> ReviewInputs] :
            \E g \in {runReviewGate(tasks, store, cfg, diffErr, rounds)} :
              /\ tasks' = g.db
              /\ store' = g.store
              /\ sup' = [sup EXCEPT
                           !.pc = "loop", !.sprint = @ + 1,
                           !.event = "review gate",
                           !.iteration = AdvanceIteration(@, sup.srIteration)]
     ELSE /\ sup' = [sup EXCEPT
                       !.pc = "loop", !.sprint = @ + 1, !.event = "",
                       !.iteration = AdvanceIteration(@, sup.srIteration)]
          /\ UNCHANGED <<tasks, store>>
  /\ UNCHANGED env
  /\ RunIdle

\* supervisor.go finalize, and Run's return of its result.
Finalize ==
  /\ sup.pc = "finalize"
  /\ \E diffErr \in BOOLEAN :
     \E rounds \in [1..cfg.MaxReviewRounds -> ReviewInputs] :
     \E g \in {IF cfg.ReviewEnabled /\ cfg.ReviewAfter = "pr"
                 THEN runReviewGate(tasks, store, cfg, diffErr, rounds)
                 ELSE [db |-> tasks, store |-> store]} :
       /\ tasks' = g.db
       /\ store' = UpdateSessionStatus(
                     IF cfg.JournalEnabled
                       THEN AddJournalEntry(g.store, "final_wrap_up", 0)
                       ELSE g.store,
                     "completed")
       /\ sup' = [sup EXCEPT
                    !.pc = "done", !.exit = "",
                    !.event = IF cfg.ReviewEnabled /\ cfg.ReviewAfter = "pr"
                                THEN "review gate" ELSE ""]
  /\ UNCHANGED env
  /\ RunIdle

\* The context given to Run or RunSprint is cancelled.
Cancel ==
  /\ sup.pc \notin {"done", "returned"}
  /\ ~env.cancelled
  /\ env' = [env EXCEPT
               !.cancelled = TRUE,
               !.at = IF sup.pc = "loop" /\ sup.sprint > cfg.MaxSprints
                        THEN "loop ended" ELSE sup.pc]
  /\ UNCHANGED <<tasks, sup, store>>
  /\ RunIdle

\* The time since the budget enforcer was created reaches MaxDuration.
TimePasses ==
  /\ sup.pc \notin {"done", "returned"}
  /\ cfg.Budget.MaxDuration > 0
  /\ ~env.overtime
  /\ env' = [env EXCEPT !.overtime = TRUE]
  /\ UNCHANGED <<tasks, sup, store>>
  /\ RunIdle

NextRun ==
  \/ Setup
  \/ CallRunSprint
  \/ LoopHead
  \/ SprintPass
  \/ Retro
  \/ AfterSprint
  \/ Finalize
  \/ Cancel
  \/ TimePasses

SpecRun == InitRun /\ [][NextRun]_vars

RunTypeOK == sup.pc \in {"start", "loop", "sprint", "retro", "afterSprint",
                         "finalize", "done", "returned"}

(***************************************************************************)
(* Claims about the supervisor, checked under SpecRun.                     *)
(***************************************************************************)
\* The Store's rows of the session and the TaskDB hold the same ids with the
\* same statuses.
Agree(db, st) ==
  /\ DOMAIN db = ListTasks(st)
  /\ \A i \in DOMAIN db \cap DOMAIN st.tasks : db[i].status = st.tasks[i].status

\* C12: at the end of every sprint (after the retrospective's adaptive
\* actions) and after every review gate, the Store and the TaskDB hold the
\* same task ids for the session and the same status for each task.
C12_StoreAndTaskDBAgree ==
  sup.event \in {"sprint end", "review gate"} => Agree(tasks, store)

\* The same at the end of a sprint only: it holds until a review gate has
\* injected a fix task.
C12_AgreeAtSprintEndBeforeAnyFix ==
  (sup.event = "sprint end" /\ DOMAIN tasks \cap FixIds = {})
    => Agree(tasks, store)

\* The step is a pass of RunSprint's loop that enters the loop body.
PassBegins == sup.pc = "sprint" /\ sup' # sup /\ sup.i < cfg.SprintSize

\* RunSprint has returned.
SprintReturned == sup.pc \in {"afterSprint", "returned"}

BudgetExceededNow ==
  BudgetStatus(cfg, store, env, sup.srIteration).Exceeded

StreakReached == sup.consecutiveFails >= cfg.MaxConsecutiveFails

AbortedForFails(result) ==
  result.AbortedEarly /\ result.AbortReason = "consecutive failures"

\* C13 as stated: once m = max_consecutive_fails iterations in a row have
\* failed, the result RunSprint returns has AbortedEarly = true with a
\* reason containing "consecutive failures", and with a runner that fails
\* every attempt and sprint_size >= m, TasksAttempted = m.
C13_AbortsAsStated ==
  SprintReturned =>
    /\ StreakReached => AbortedForFails(sup.result)
    /\ (cfg.runner = "noop" /\ cfg.SprintSize >= cfg.MaxConsecutiveFails)
         => sup.result.TasksAttempted = cfg.MaxConsecutiveFails

\* C13: once m = max_consecutive_fails iterations in a row have failed, no
\* further iteration runs in that sprint; when the loop then begins another
\* pass with the context not cancelled and the budget not exceeded, the
\* result has AbortedEarly = true with the reason "consecutive failures";
\* while every attempt of the sprint has failed TasksAttempted never exceeds
\* m, and it equals m when the sprint ends with that reason.
C13_StopsAfterConsecutiveFails ==
  [][sup.pc = "sprint" =>
       /\ StreakReached =>
            /\ sup'.started = sup.started
            /\ (PassBegins /\ ~env.cancelled /\ ~BudgetExceededNow)
                 => AbortedForFails(sup'.result)
       /\ sup'.result.TasksCompleted = 0 =>
            /\ sup'.result.TasksAttempted <= cfg.MaxConsecutiveFails
            /\ AbortedForFails(sup'.result) =>
                 sup'.result.TasksAttempted = cfg.MaxConsecutiveFails]_vars

\* Two failures in a row with max_consecutive_fails = 2 have ended a sprint
\* that had passes left.
C13_Witness ==
  /\ sup.pc = "retro"
  /\ cfg.MaxConsecutiveFails = 2
  /\ sup.i < cfg.SprintSize
  /\ sup.consecutiveFails = 2
  /\ AbortedForFails(sup.result)
  /\ sup.result.TasksAttempted = 2
  /\ sup.result.TasksFailed = 2

C15_CancelledPassReturnsAborted ==
  [][(PassBegins /\ env.cancelled) =>
       /\ sup'.started = sup.started
       /\ tasks' = tasks
       /\ store' = store
       /\ sup'.pc = Caller(cfg)
       /\ sup'.sprintErr = ErrCanceled
       /\ sup'.result.AbortedEarly
       /\ sup'.result.AbortReason = "context cancelled"]_vars

\* RunSprint has returned the cancellation error after the context was
\* cancelled between two of its iterations.
C15_Witness ==
  /\ SprintReturned
  /\ env.cancelled
  /\ env.at = "sprint"
  /\ sup.sprintErr = ErrCanceled
  /\ sup.result.AbortReason = "context cancelled"
  /\ sup.result.TasksAttempted >= 1
  /\ sup.i < cfg.SprintSize

\* C16: whenever the context is cancelled at a point of the supervisor's
\* sprint loop (before a sprint starts or during a sprint), the session's
\* final status is cancelled and Run returns the cancellation error.
C16_CancelledInLoopEndsCancelled ==
  (/\ sup.pc = "done"
   /\ env.cancelled
   /\ env.at \in {"loop", "sprint", "retro", "afterSprint"})
    => (store.session = "cancelled" /\ sup.exit = ErrCanceled)

\* The same for a cancellation at the head of the sprint loop only.
C16_CancelledAtLoopHeadEndsCancelled ==
  (sup.pc = "done" /\ env.cancelled /\ env.at = "loop")
    => (store.session = "cancelled" /\ sup.exit = ErrCanceled)

C17_WitnessError ==
  /\ sup.pc = "done"
  /\ \/ sup.exit = ErrSetup /\ store.session = "failed"
     \/ sup.exit = ErrCanceled /\ store.session = "cancelled"

\* C18: after every iteration the attempt row persisted in the Store for it
\* carries its outcome: a set success flag and completed_at (with the error
\* message and the duration).
C18_AttemptRowsCarryOutcome ==
  \A k \in 1..Len(store.attempts) :
    /\ store.attempts[k].success \in {"true", "false"}
    /\ store.attempts[k].completed

\* What the Store does hold for every iteration that got as far as the
\* runner: the row as it was inserted, with its transcript.
C18_AttemptRowsKeepInsertedState ==
  \A k \in 1..Len(store.attempts) :
    /\ store.attempts[k].success = Unset
    /\ ~store.attempts[k].completed
    /\ store.attempts[k].transcript

\* The place of a write in the order the specification gives: attempt row,
\* usage row, attempt update, transcript, task-status update, journal entry,
\* commit; 0 for a write the order does not name.
StatedRank(row) ==
  CASE row.kind = "attempt" /\ row.what = "insert" -> 1
    [] row.kind = "usage" -> 2
    [] row.kind = "attempt" /\ row.what = "update" -> 3
    [] row.kind = "transcript" -> 4
    [] row.kind = "status" -> 5
    [] row.kind = "journal" /\ row.what \in {"task_complete", "task_failed"}
         -> 6
    [] row.kind = "commit" -> 7
    [] OTHER -> 0

\* The place of a write in the order of runIteration's statements.
CodeRank(row) ==
  CASE row.kind = "journal" /\ row.what = "task_start" -> 1
    [] row.kind = "attempt" -> 2
    [] row.kind = "usage" -> 3
    [] row.kind = "transcript" -> 4
    [] row.kind = "commit" -> 5
    [] row.kind = "status" -> 6
    [] row.kind = "journal" /\ row.what \in {"task_complete", "task_failed"}
         -> 7
    [] OTHER -> 0

\* The iteration whose writes rows i and j of the log both are.
SameIteration(i, j) ==
  /\ store.log[i].it >= 1
  /\ store.log[i].it = store.log[j].it
  /\ store.log[i].what # "sprint_retro"
  /\ store.log[j].what # "sprint_retro"

\* C19: within every iteration the writes occur in this order: attempt row,
\* usage row, attempt update, transcript, task-status update, journal entry,
\* commit.
C19_WritesInStatedOrder ==
  \A i, j \in 1..Len(store.log) :
    (i < j /\ SameIteration(i, j)
       /\ StatedRank(store.log[i]) > 0 /\ StatedRank(store.log[j]) > 0)
      => StatedRank(store.log[i]) < StatedRank(store.log[j])

\* The order the writes of an iteration do occur in: start entry, attempt
\* row, usage row, transcript, commit, task-status update, result entry.
C19_WritesInCodeOrder ==
  \A i, j \in 1..Len(store.log) :
    (i < j /\ SameIteration(i, j)
       /\ CodeRank(store.log[i]) > 0 /\ CodeRank(store.log[j]) > 0)
      => CodeRank(store.log[i]) < CodeRank(store.log[j])

\* C20: within a session every journal entry for iteration k is persisted
\* before any write belonging to iteration k+1, and the iteration numbers
\* never decrease or repeat from one iteration to the next, across sprint
\* boundaries.
C20_IterationsInOrder ==
  /\ \A i, j \in 1..Len(sup.started) : i < j => sup.started[i] < sup.started[j]
  /\ \A i, j \in 1..Len(store.log) :
       (i < j /\ store.log[i].it >= 1 /\ store.log[j].it >= 1)
         => store.log[i].it <= store.log[j].it

\* Two sprints of one iteration each have run, with the journal on.
C20_Witness ==
  /\ cfg.JournalEnabled
  /\ cfg.SprintSize = 1
  /\ sup.sprint = 2
  /\ sup.started = <<1, 2>>
  /\ \E i, j \in 1..Len(store.log) :
       /\ i < j
       /\ store.log[i] = Row("journal", "task_failed", 1)
       /\ store.log[j] = Row("attempt", "insert", 2)

(***************************************************************************)
(* SpecAdapt: the adaptive controller and the scheduler.  The TaskDB and   *)
(* the Store hold the same tasks; Apply is handed recommendations and the  *)
(* sprint runner then asks the TaskDB for the next task.                   *)
(***************************************************************************)
MaxRecs == 2
MaxAdaptCalls == 2

RecDeferTask == "defer_task"
RecSkipTask == "skip_task"
RecUpdateContext == "update_context"

\* The ids Apply passes to UpdateTaskStatus(id, "deferred").
deferredBy(recs) ==
  {recs[k].taskID : k \in {j \in 1..Len(recs) :
                             /\ recs[j].action \in {RecDeferTask, RecSkipTask}
                             /\ recs[j].taskID # NoID}}

\* The rows InsertTask writes for the tasks of a TaskDB.
RowsOf(db) ==
  [i \in DOMAIN db |-> [session |-> sessionID, status |-> db[i].status]]

AdaptAttrs ==
  [status : {StatusPending, StatusInProgress, StatusCompleted},
   dependsOn : SeqsUpTo(SchedIds, MaxDeps)]

RecInputs ==
  [action : {RecDeferTask, RecSkipTask, RecUpdateContext},
   taskID : SchedIds \cup {NoID}]

InitAdapt ==
  /\ \E D \in SUBSET SchedIds : \E f \in [D -> AdaptAttrs] :
       tasks = [i \in D |-> FillDefaults(
                  Task(i, f[i].status, 1, f[i].dependsOn, 0, 1), 1)]
  /\ clock = 1
  /\ ret = NoRet
  /\ nops = 0
  /\ sup = IdleSup
  /\ env = IdleEnv
  /\ cfg = IdleCfg
  /\ conc = IdleConc
  /\ store = [EmptyStore EXCEPT !.tasks = RowsOf(tasks)]

\* adaptive.go Apply, called as RunSprint calls it after Analyze.
ApplyCall ==
  /\ nops < MaxAdaptCalls
  /\ \E recs \in SeqsUpTo(RecInputs, MaxRecs) \ {<<>>} :
       /\ store' = Apply(store, deferredBy(recs))
       /\ sup' = [sup EXCEPT
                    !.deferred = @ \cup (deferredBy(recs) \cap DOMAIN store.tasks)]
       /\ ret' = [NoRet EXCEPT !.op = "Apply"]
  /\ nops' = nops + 1
  /\ UNCHANGED <<tasks, clock, env, cfg, conc>>

NextAdapt ==
  \/ ApplyCall
  \/ NextTask /\ UNCHANGED <<nops, svars>>

SpecAdapt == InitAdapt /\ [][NextAdapt]_vars

\* C21: after the adaptive controller has applied a defer_task or skip_task
\* recommendation for task t, t is deferred and the scheduler does not
\* select t afterwards.
C21_DeferredNeverSelected ==
  \A t \in sup.deferred :
    /\ store.tasks[t].status = StatusDeferred
    /\ ret.op = "NextTask" => ret.id # t

\* What Apply does achieve: the Store row of t says deferred.
C21_DeferredInStore ==
  \A t \in sup.deferred : store.tasks[t].status = StatusDeferred

(***************************************************************************)
(* The review package: parseReviewOutput.  The reviewer's output is        *)
(* modelled by what extractJSON and json.Unmarshal make of it: no JSON     *)
(* object, one that does not unmarshal, or one with an approved flag and a *)
(* list of findings, of which only the severity matters here.              *)
(***************************************************************************)
MaxFindings == 2

SeverityCritical == "critical"
SeveritySignificant == "significant"
SeverityMinor == "minor"
SeverityNit == "nit"

Severities ==
  {SeverityCritical, SeveritySignificant, SeverityMinor, SeverityNit}

IsBlocker(severity) == severity \in {SeverityCritical, SeveritySignificant}

\* ReviewResult.HasBlockers
HasBlockers(findings) == \E k \in 1..Len(findings) : IsBlocker(findings[k])

\* ReviewResult.BlockerFindings
BlockerFindings(findings) == SelectSeq(findings, IsBlocker)

NotParsed == [approved |-> FALSE, findings |-> <<>>]

\* A parser that believes the approved flag.
parseTrustingApproved(output) ==
  IF output.json # "ok" THEN NotParsed
  ELSE [approved |-> output.approved, findings |-> output.findings]

parseReviewOutput(output) ==
  IF output.json = "none" THEN NotParsed
  ELSE IF output.json = "bad" THEN NotParsed
  ELSE [approved |-> IF HasBlockers(output.findings) THEN FALSE
                     ELSE output.approved,
        findings |-> output.findings]

ReviewOutputs ==
  {[json |-> "none", approved |-> FALSE, findings |-> <<>>],
   [json |-> "bad", approved |-> FALSE, findings |-> <<>>]} \cup
  [json : {"ok"}, approved : BOOLEAN,
   findings : SeqsUpTo(Severities, MaxFindings)]

(***************************************************************************)
(* SpecReview: a supervisor with a reviewer runs one review gate.  Each    *)
(* round the reviewer fails or returns the parsed result of its output;    *)
(* ids[k] is the id the k-th blocker's fix task gets.                      *)
(***************************************************************************)
ReviewFixIds == {"f1", "f2"}

RoundInputs ==
  {[err |-> TRUE, output |-> o, ids |-> <<>>] :
     o \in {[json |-> "none", approved |-> FALSE, findings |-> <<>>]}} \cup
  UNION {{[err |-> FALSE, output |-> o, ids |-> ids] :
            ids \in [1..Len(BlockerFindings(parseReviewOutput(o).findings))
                       -> ReviewFixIds]} :
         o \in ReviewOutputs}

\* What runReviewGate sees of a round: the error, the parsed result and the
\* ids of the fix tasks of its blockers.
RoundSeen(in) ==
  LET result == parseReviewOutput(in.output)
      blockers == BlockerFindings(result.findings)
  IN [err |-> in.err, approved |-> result.approved,
      findings |-> result.findings,
      fixes |-> [k \in 1..Len(blockers) |-> in.ids[k]]]

ReviewCfgs ==
  {[IdleCfg EXCEPT !.ReviewEnabled = TRUE, !.ReviewAfter = "sprint",
                   !.reviewer = TRUE, !.JournalEnabled = j,
                   !.MaxReviewRounds = n] :
     j \in BOOLEAN, n \in 1..DefaultMaxReviewRounds}

InitReview ==
  /\ tasks \in {EmptyDB,
                [i \in {"a"} |-> FillDefaults(DagTask("a", <<>>), 1)]}
  /\ clock = 1
  /\ ret = NoRet
  /\ nops = 0
  /\ sup = IdleSup
  /\ env = IdleEnv
  /\ conc = IdleConc
  /\ cfg \in ReviewCfgs
  /\ \E rows \in EarlierRows :
       store = [EmptyStore EXCEPT
                  !.tasks = [i \in DOMAIN rows \cup DOMAIN tasks |->
                               IF i \in DOMAIN tasks THEN RowsOf(tasks)[i]
                               ELSE rows[i]]]

\* Reviewer.Review up to its return: the output is parsed.
ParseCall ==
  /\ ret = NoRet
  /\ \E o \in ReviewOutputs :
       ret' = [op |-> "parseReviewOutput", output |-> o,
               result |-> parseReviewOutput(o)]
  /\ UNCHANGED <<tasks, clock, nops, svars>>

\* supervisor.go runReviewGate, whole.
ReviewGate ==
  /\ ret = NoRet
  /\ \E diffErr \in BOOLEAN :
     \E ins \in [1..cfg.MaxReviewRounds -> RoundInputs] :
       \E rounds \in {[k \in 1..cfg.MaxReviewRounds |-> RoundSeen(ins[k])]} :
         \E g \in {runReviewGate(tasks, store, cfg, diffErr, rounds)} :
           /\ tasks' = g.db
           /\ store' = g.store
           /\ ret' = [op |-> "runReviewGate", diffErr |-> diffErr,
                      rounds |-> rounds]
  /\ nops' = nops + 1
  /\ UNCHANGED <<clock, sup, env, cfg, conc>>

\* The next sprint asks the scheduler.
ReviewNextTask ==
  /\ ret.op = "runReviewGate"
  /\ \/ /\ Candidates(tasks) = {}
        /\ ret' = [NoRet EXCEPT !.op = "NextTask"]
     \/ \E id \in NextTaskResults(tasks) :
          ret' = [NoRet EXCEPT !.op = "NextTask", !.id = id]
  /\ UNCHANGED <<tasks, clock, nops, svars>>

NextReview ==
  \/ ParseCall
  \/ ReviewGate
  \/ ReviewNextTask

SpecReview == InitReview /\ [][NextReview]_vars

\* C22: a parsed review result is never approved while it contains a
\* blocker finding (severity critical or significant): approved = true in
\* the reviewer's JSON is coerced to false whenever a blocker is present.
C22_NotApprovedWithBlocker ==
  ret.op = "parseReviewOutput" =>
    ~(ret.result.approved /\ HasBlockers(ret.result.findings))

\* The JSON said approved = true, had a critical finding, and was parsed.
C22_Witness ==
  /\ ret.op = "parseReviewOutput"
  /\ ret.output.json = "ok"
  /\ ret.output.approved
  /\ \E k \in 1..Len(ret.output.findings) :
       ret.output.findings[k] = SeverityCritical
  /\ ~ret.result.approved
  /\ ret.result.findings = ret.output.findings

\* The rounds of the gate that ran: no earlier round failed or approved.
ExecutedRounds(rounds) ==
  {k \in 1..Len(rounds) :
     /\ ~rounds[k].err
     /\ \A j \in 1..(k - 1) : ~rounds[j].err /\ ~rounds[j].approved}

\* id is a pending priority-0 task of the TaskDB that the scheduler can
\* select, and a pending task of this session in the Store.
FixInjected(id) ==
  /\ id \in DOMAIN tasks
  /\ tasks[id].status = StatusPending
  /\ tasks[id].priority = FixPriority
  /\ IsCandidate(tasks, id)
  /\ id \in ListTasks(store)
  /\ store.tasks[id].status = StatusPending

FixInTaskDB(id) ==
  /\ id \in DOMAIN tasks
  /\ tasks[id].status = StatusPending
  /\ tasks[id].priority = FixPriority
  /\ IsCandidate(tasks, id)

\* C23: in every review round whose result is not approved, each blocker
\* finding is added as a new pending fix task with priority 0 to both the
\* TaskDB and the Store, so that the next sprint's scheduler can select it.
C23_BlockersOfRejectedRoundsInjected ==
  (ret.op = "runReviewGate" /\ ~ret.diffErr) =>
    \A k \in ExecutedRounds(ret.rounds) :
      ~ret.rounds[k].approved =>
        \A j \in 1..Len(ret.rounds[k].fixes) :
          FixInjected(ret.rounds[k].fixes[j])

\* What the gate does: a rejected round other than the last allowed one
\* leaves a fix task in the TaskDB for each of its blockers.
C23_InjectedBeforeLastRound ==
  (ret.op = "runReviewGate" /\ ~ret.diffErr) =>
    \A k \in ExecutedRounds(ret.rounds) :
      (~ret.rounds[k].approved /\ k < cfg.MaxReviewRounds) =>
        \A j \in 1..Len(ret.rounds[k].fixes) :
          FixInTaskDB(ret.rounds[k].fixes[j])

(***************************************************************************)
(* SpecBudget: a BudgetEnforcer with limits drawn from 0..MaxLimit is      *)
(* asked Check with usages chosen by its caller, while time passes.  clock *)
(* is the time since NewBudgetEnforcer (time.Since of a monotonic start).  *)
(* ret holds the last call with its status and, in ret.first, one earlier  *)
(* call that reported Exceeded.                                            *)
(***************************************************************************)
MaxLimit == 2
MaxUsage == 3
MaxElapsed == 3
MaxBudgetCalls == 2

\* Check with the duration limit counted only at the moment it is reached.
CheckAtExactly(budget, tokensUsed, elapsed, iterationsUsed) ==
  Check(budget, tokensUsed, elapsed = budget.MaxDuration, iterationsUsed)

\* Check, with elapsed := time.Since(e.startTime)
CheckAt(budget, tokensUsed, elapsed, iterationsUsed) ==
  Check(budget, tokensUsed, elapsed >= budget.MaxDuration, iterationsUsed)

NoCheck ==
  [n |-> 0, tokensUsed |-> 0, elapsed |-> 0, iterationsUsed |-> 0,
   Reason |-> ""]

InitBudget ==
  /\ tasks = EmptyDB
  /\ clock = 0
  /\ ret = NoRet
  /\ nops = 0
  /\ sup = IdleSup
  /\ env = IdleEnv
  /\ conc = IdleConc
  /\ store = EmptyStore
  /\ \E b \in [MaxTokens : 0..MaxLimit, MaxDuration : 0..MaxLimit,
               MaxIterations : 0..MaxLimit] :
       cfg = [IdleCfg EXCEPT !.Budget = b]

Elapse ==
  /\ clock < MaxElapsed
  /\ clock' = clock + 1
  /\ UNCHANGED <<tasks, ret, nops, svars>>

CheckCall ==
  /\ nops < MaxBudgetCalls
  /\ \E tokensUsed \in 0..MaxUsage, iterationsUsed \in 0..MaxUsage :
     \E status \in {CheckAt(cfg.Budget, tokensUsed, clock, iterationsUsed)} :
     \E earlier \in {IF ret.op = "Check" THEN ret.first ELSE NoCheck} :
     \E first \in {earlier} \cup
                  (IF ret.op = "Check" /\ ret.status.Exceeded
                   THEN {[n |-> ret.n, tokensUsed |-> ret.tokensUsed,
                          elapsed |-> ret.elapsed,
                          iterationsUsed |-> ret.iterationsUsed,
                          Reason |-> ret.status.Reason]}
                   ELSE {}) :
       ret' = [op |-> "Check", n |-> nops + 1, tokensUsed |-> tokensUsed,
               elapsed |-> clock, iterationsUsed |-> iterationsUsed,
               status |-> status, first |-> first]
  /\ nops' = nops + 1
  /\ UNCHANGED <<tasks, clock, svars>>

NextBudget ==
  \/ Elapse
  \/ CheckCall

SpecBudget == InitBudget /\ [][NextBudget]_vars

TokensReached ==
  cfg.Budget.MaxTokens # 0 /\ ret.tokensUsed >= cfg.Budget.MaxTokens

DurationReached ==
  cfg.Budget.MaxDuration # 0 /\ ret.elapsed >= cfg.Budget.MaxDuration

IterationsReached ==
  cfg.Budget.MaxIterations # 0 /\ ret.iterationsUsed >= cfg.Budget.MaxIterations

\* C24: Check(tokens_used, iterations_used) returns Exceeded = true if and
\* only if some configured (non-zero) limit is reached or surpassed, the
\* reported reason being that of the first exceeded dimension in the order
\* tokens, duration, iterations; a limit of zero never causes Exceeded.
C24_ExceededIffSomeLimitReached ==
  ret.op = "Check" =>
    /\ ret.status.Exceeded <=>
         (TokensReached \/ DurationReached \/ IterationsReached)
    /\ ret.status.Exceeded =>
         ret.status.Reason =
           IF TokensReached THEN "token budget exceeded"
           ELSE IF DurationReached THEN "duration budget exceeded"
           ELSE "iteration budget exceeded"

\* All three limits are reached at once and the tokens are reported.
C24_Witness ==
  /\ ret.op = "Check"
  /\ TokensReached /\ DurationReached /\ IterationsReached
  /\ ret.status.Exceeded
  /\ ret.status.Reason = "token budget exceeded"

\* The usage of the last call on the dimension that ret.first reported is
\* at least what it was then.
NoLowerOnDimension ==
  /\ ret.first.Reason = "token budget exceeded" =>
       ret.tokensUsed >= ret.first.tokensUsed
  /\ ret.first.Reason = "duration budget exceeded" =>
       ret.elapsed >= ret.first.elapsed
  /\ ret.first.Reason = "iteration budget exceeded" =>
       ret.iterationsUsed >= ret.first.iterationsUsed

\* C25: once Check reports Exceeded because of a dimension, every later
\* Check with equal or higher usage on that dimension also reports Exceeded.
C25_ExceededStaysExceeded ==
  (ret.op = "Check" /\ ret.first.Reason # "" /\ NoLowerOnDimension) =>
    ret.status.Exceeded

\* A call exceeded on iterations; a later call has the same iterations,
\* fewer tokens and a later time, and reports Exceeded too.
C25_Witness ==
  /\ ret.op = "Check"
  /\ ret.first.Reason = "iteration budget exceeded"
  /\ ret.first.n < ret.n
  /\ ret.iterationsUsed = ret.first.iterationsUsed
  /\ ret.tokensUsed < ret.first.tokensUsed
  /\ ret.elapsed > ret.first.elapsed
  /\ ret.status.Exceeded

(***************************************************************************)
(* The retro package: Analyzer.Analyze over a Store that also holds        *)
(* quality snapshots.  A snapshot is [session, pass, column, failed]:      *)
(* overall_pass, and failed_tests_json as "empty" (NULL or ''), "invalid"  *)
(* (text that does not unmarshal into a list of strings) or "list", with   *)
(* failed the list of test names it holds.                                 *)
(* st.snapshots is in insertion order (ascending id), st.attempts too      *)
(* (ascending started_at).                                                 *)
(***************************************************************************)
PatternRepeatedFailure == "repeated_failure"
PatternSameTestFailing == "same_test_failing"
PatternQualityDegradation == "quality_degradation"
PatternStuck == "stuck"

RecRollback == "rollback"
RecSwitchAgent == "switch_agent"
RecEscalate == "escalate"

SameTestThreshold == 3
StuckThreshold == 3
RepeatedFailureThreshold == 2

\* A grading that never reaches "high".
severityNeverHigh(count) ==
  IF count >= RepeatedFailureThreshold THEN "medium" ELSE "low"

severityFromFailCount(count) ==
  IF count >= HighSeverityFailCount THEN "high"
  ELSE IF count >= RepeatedFailureThreshold THEN "medium"
  ELSE "low"

\* The newest lastN elements of s, newest first (ORDER BY id DESC LIMIT ?).
NewestFirst(s, lastN) ==
  [k \in 1..(IF lastN < Len(s) THEN lastN ELSE Len(s)) |-> s[Len(s) + 1 - k]]

\* The number of times t occurs in the list names.
Occurrences(names, t) == Cardinality({k \in 1..Len(names) : names[k] = t})

RECURSIVE countIn(_, _, _)
countIn(rows, t, k) ==
  IF k > Len(rows) THEN 0
  ELSE (IF rows[k].column = "list" THEN Occurrences(rows[k].failed, t) ELSE 0)
       + countIn(rows, t, k + 1)

\* The rows of the session that FailingTestTrend reads: WHERE
\* failed_tests_json IS NOT NULL AND failed_tests_json != '' ORDER BY id
\* DESC LIMIT lastN.
TrendRows(st, lastN) ==
  NewestFirst(SelectSeq(st.snapshots,
                        LAMBDA q : q.session = sessionID /\ q.column # "empty"),
              lastN)

\* counts[t]++ for every name of every row that unmarshals; a row that
\* does not is skipped.
trendCounts(rows) ==
  [t \in UNION {Range(rows[k].failed) :
                  k \in {j \in 1..Len(rows) : rows[j].column = "list"}} |->
     countIn(rows, t, 1)]

\* store.FailingTestTrend
FailingTestTrend(st, lastN) == trendCounts(TrendRows(st, lastN))

\* The classification with the two halves taken the other way round.
trendOlderFirst(results) ==
  IF Len(results) < 2 THEN "stable"
  ELSE
    LET recentCount == Len(results) \div 2
        olderCount == Len(results) - recentCount
        recentPasses == Cardinality({i \in 1..recentCount : results[i]})
        olderPasses ==
          Cardinality({i \in (recentCount + 1)..Len(results) : results[i]})
        recent == 5 * recentPasses * olderCount
        older == 5 * olderPasses * recentCount
        margin == recentCount * olderCount
    IN IF older > recent + margin THEN "improving"
       ELSE IF older < recent - margin THEN "degrading"
       ELSE "stable"

trendOf(results) ==
  IF Len(results) < 2 THEN "stable"
  ELSE
    LET recentCount == Len(results) \div 2
        olderCount == Len(results) - recentCount
        recentPasses == Cardinality({i \in 1..recentCount : results[i]})
        olderPasses ==
          Cardinality({i \in (recentCount + 1)..Len(results) : results[i]})
        recent == 5 * recentPasses * olderCount
        older == 5 * olderPasses * recentCount
        margin == recentCount * olderCount
    IN IF recent > older + margin THEN "improving"
       ELSE IF recent < older - margin THEN "degrading"
       ELSE "stable"

\* The rows of the session that QualityTrend reads.
QualityRows(st, lastN) ==
  NewestFirst(SelectSeq(st.snapshots, LAMBDA q : q.session = sessionID), lastN)

QualityTrend(st, lastN) ==
  trendOf([k \in 1..Len(QualityRows(st, lastN)) |->
             QualityRows(st, lastN)[k].pass])

\* store.ListTasks as a list: the order the query gives on this Store.
RetroOrder == <<"a", "b">>

ListTasksInOrder(st) == SelectSeq(RetroOrder, LAMBDA id : id \in ListTasks(st))

\* retro isStuck: the newest attempts of the listed tasks, up to the first
\* one that is not a recorded failure.
RECURSIVE trailingFails(_, _)
trailingFails(rows, k) ==
  IF k < 1 \/ rows[k].success # "false" THEN 0
  ELSE 1 + trailingFails(rows, k - 1)

isStuck(st) ==
  LET rows == SelectSeq(st.attempts, LAMBDA r : r.task \in ListTasks(st))
  IN trailingFails(rows, Len(rows)) >= StuckThreshold

Pattern(type, taskIDs, tests, severity) ==
  [Type |-> type, TaskIDs |-> taskIDs, Tests |-> tests, Severity |-> severity]

RECURSIVE repeatedFailures(_, _, _)
repeatedFailures(st, order, k) ==
  IF k > Len(order) THEN <<>>
  ELSE (IF failCount(st, order[k]) >= RepeatedFailureThreshold
        THEN <<Pattern(PatternRepeatedFailure, <<order[k]>>, <<>>,
                       severityFromFailCount(failCount(st, order[k])))>>
        ELSE <<>>)
       \o repeatedFailures(st, order, k + 1)

\* The tests that failed in enough snapshots; the map is ranged over in an
\* order the runtime picks.
PersistentTests(st, lastN) ==
  {t \in DOMAIN FailingTestTrend(st, lastN) :
     FailingTestTrend(st, lastN)[t] >= SameTestThreshold}

\* retro detectPatterns; testOrder is the order of the range over the map.
detectPatterns(st, startIter, endIter, testOrder) ==
  repeatedFailures(st, ListTasksInOrder(st), 1)
  \o [k \in 1..Len(testOrder) |->
        Pattern(PatternSameTestFailing, <<>>, <<testOrder[k]>>, "high")]
  \o (IF QualityTrend(st, endIter - startIter + 1) = "degrading"
      THEN <<Pattern(PatternQualityDegradation, <<>>, <<>>, "high")>>
      ELSE <<>>)
  \o (IF isStuck(st) THEN <<Pattern(PatternStuck, <<>>, <<>>, "high")>>
      ELSE <<>>)

\* tests stands for the part of the description that names tests.
Recommendation(action, taskID, tests, priority) ==
  [action |-> action, taskID |-> taskID, tests |-> tests,
   priority |-> priority]

recommendationsFor(p) ==
  IF p.Type = PatternRepeatedFailure
    THEN [k \in 1..Len(p.TaskIDs) |->
            IF p.Severity = "high"
            THEN Recommendation(RecDeferTask, p.TaskIDs[k], <<>>, 1)
            ELSE Recommendation(RecUpdateContext, p.TaskIDs[k], <<>>, 2)]
  ELSE IF p.Type = PatternSameTestFailing
    THEN <<Recommendation(RecUpdateContext, NoID, p.Tests, 1)>>
  ELSE IF p.Type = PatternQualityDegradation
    THEN <<Recommendation(RecRollback, NoID, <<>>, 1)>>
  ELSE IF p.Type = PatternStuck
    THEN <<Recommendation(RecSwitchAgent, NoID, <<>>, 1),
           Recommendation(RecEscalate, NoID, <<>>, 2)>>
  ELSE <<>>

RECURSIVE generateRecommendations(_, _)
generateRecommendations(patterns, k) ==
  IF k > Len(patterns) THEN <<>>
  ELSE recommendationsFor(patterns[k]) \o generateRecommendations(patterns, k + 1)

InWindow(st, startIter, endIter) ==
  {k \in 1..Len(st.attempts) :
     /\ st.attempts[k].task \in ListTasks(st)
     /\ st.attempts[k].number >= startIter
     /\ st.attempts[k].number <= endIter}

\* retro Analyze, lines 259-282: the tasks with an attempt whose number is
\* in the range, with one recorded as a success, and with one that is not.
countOutcomes(st, startIter, endIter) ==
  LET inWindow == InWindow(st, startIter, endIter)
  IN [TasksAttempted |->
        Cardinality({st.attempts[k].task : k \in inWindow}),
      TasksCompleted |->
        Cardinality({st.attempts[k].task :
                       k \in {j \in inWindow : st.attempts[j].success = "true"}}),
      TasksFailed |->
        Cardinality({st.attempts[k].task :
                       k \in {j \in inWindow : st.attempts[j].success # "true"}})]

\* retro Analyze
Analyze(st, startIter, endIter, testOrder) ==
  LET patterns == detectPatterns(st, startIter, endIter, testOrder)
      counts == countOutcomes(st, startIter, endIter)
  IN [TasksAttempted |-> counts.TasksAttempted,
      TasksCompleted |-> counts.TasksCompleted,
      TasksFailed |-> counts.TasksFailed,
      QualityTrend |-> QualityTrend(st, endIter - startIter + 1),
      Patterns |-> patterns,
      Recommendations |-> generateRecommendations(patterns, 1)]

(***************************************************************************)
(* SpecRetro: attempts with an outcome and quality snapshots are written   *)
(* to the Store of a session with the tasks a and b; then Analyze runs     *)
(* twice on that Store with the same iteration window.  ret holds the      *)
(* report of the last run and, in ret.first, that of the first.            *)
(***************************************************************************)
MaxAttemptRows == 3
MaxSnapshots == 4

TestNames == {"t1", "t2"}

Snapshot(session, overallPass, column, failed) ==
  [session |-> session, pass |-> overallPass, column |-> column,
   failed |-> failed]

SnapshotInputs ==
  {Snapshot(sessionID, TRUE, "empty", <<>>)} \cup
  {Snapshot(sessionID, FALSE, "list", f) : f \in {<<"t1">>, <<"t1", "t2">>}}

InitRetro ==
  /\ tasks = EmptyDB
  /\ clock = 1
  /\ ret = NoRet
  /\ nops = 0
  /\ sup = IdleSup
  /\ env = IdleEnv
  /\ conc = IdleConc
  /\ cfg = IdleCfg
  /\ store = [session |-> "running",
              tasks |-> [i \in Range(RetroOrder) |->
                           [session |-> sessionID, status |-> StatusPending]],
              attempts |-> <<>>, tokens |-> 0, log |-> <<>>,
              snapshots |-> <<>>]

\* store.RecordAttempt of an attempt that carries its outcome.
RecordOutcome ==
  /\ ret = NoRet
  /\ Len(store.attempts) < MaxAttemptRows
  /\ \E id \in DOMAIN store.tasks, success \in {Unset, "true", "false"} :
       store' = RecordAttempt(store,
                              [AttemptRow(id, Len(store.attempts) + 1, 0)
                                 EXCEPT !.success = success],
                              FALSE).store
  /\ UNCHANGED <<tasks, clock, ret, nops, sup, env, cfg, conc>>

\* store.RecordQuality
RecordQuality ==
  /\ ret = NoRet
  /\ Len(store.snapshots) < MaxSnapshots
  /\ \E q \in SnapshotInputs :
       store' = [store EXCEPT !.snapshots = Append(@, q)]
  /\ UNCHANGED <<tasks, clock, ret, nops, sup, env, cfg, conc>>

\* Analyzer.Analyze, a first time on any window and a second time on the
\* same one.
AnalyzeCall ==
  /\ \/ ret = NoRet
     \/ ret.op = "Analyze" /\ ret.n = 1
  /\ \E startIter \in {1}, endIter \in 1..MaxSnapshots :
       /\ ret.op = "Analyze" => startIter = ret.startIter /\ endIter = ret.endIter
       /\ \E testOrder \in
              Perms(PersistentTests(store, endIter - startIter + 1)) :
          \E report \in {Analyze(store, startIter, endIter, testOrder)} :
            ret' = [op |-> "Analyze", n |-> nops + 1,
                    startIter |-> startIter, endIter |-> endIter,
                    report |-> report,
                    first |-> IF ret.op = "Analyze" THEN ret.first ELSE report]
  /\ nops' = nops + 1
  /\ UNCHANGED <<tasks, clock, svars>>

NextRetro ==
  \/ RecordOutcome
  \/ RecordQuality
  \/ AnalyzeCall

SpecRetro == InitRetro /\ [][NextRetro]_vars

\* The patterns of the last report that are of type repeated_failure and
\* name the task id.
RepeatedFailureOf(id) ==
  {k \in 1..Len(ret.report.Patterns) :
     /\ ret.report.Patterns[k].Type = PatternRepeatedFailure
     /\ Contains(ret.report.Patterns[k].TaskIDs, id)}

RecommendationsOf(id) ==
  {ret.report.Recommendations[k] :
     k \in {j \in 1..Len(ret.report.Recommendations) :
              ret.report.Recommendations[j].taskID = id}}

\* C26: for every task with at least 2 failed attempts, Analyze reports a
\* repeated_failure pattern naming it, with severity high when it has 3 or
\* more failed attempts and medium when it has exactly 2; a high-severity
\* pattern yields a defer_task recommendation (priority 1) for that task and
\* any other an update_context recommendation (priority 2).
C26_RepeatedFailureReported ==
  ret.op = "Analyze" =>
    \A id \in ListTasks(store) :
      /\ failCount(store, id) >= 2 =>
           /\ RepeatedFailureOf(id) # {}
           /\ \A k \in RepeatedFailureOf(id) :
                ret.report.Patterns[k].Severity =
                  IF failCount(store, id) >= 3 THEN "high" ELSE "medium"
           /\ RecommendationsOf(id) =
                IF failCount(store, id) >= 3
                THEN {Recommendation(RecDeferTask, id, <<>>, 1)}
                ELSE {Recommendation(RecUpdateContext, id, <<>>, 2)}
      /\ failCount(store, id) < 2 =>
           RepeatedFailureOf(id) = {} /\ RecommendationsOf(id) = {}

\* Task a failed three times: high severity and a defer_task recommendation.
C26_Witness ==
  /\ ret.op = "Analyze"
  /\ failCount(store, "a") = 3
  /\ \E k \in RepeatedFailureOf("a") : ret.report.Patterns[k].Severity = "high"
  /\ Recommendation(RecDeferTask, "a", <<>>, 1) \in RecommendationsOf("a")

\* Task a failed twice and succeeded once, task b was not attempted.
C26_WitnessMedium ==
  /\ ret.op = "Analyze"
  /\ failCount(store, "a") = 2
  /\ Len(store.attempts) = 3
  /\ \E k \in RepeatedFailureOf("a") : ret.report.Patterns[k].Severity = "medium"
  /\ Recommendation(RecUpdateContext, "a", <<>>, 2) \in RecommendationsOf("a")

\* C27: given identical Store state and the same iteration window, two runs
\* of Analyze produce identical patterns and recommendations, in the same
\* order.
C27_TwoRunsSameReport ==
  (ret.op = "Analyze" /\ ret.n = 2) =>
    /\ ret.report.Patterns = ret.first.Patterns
    /\ ret.report.Recommendations = ret.first.Recommendations

\* What holds: the two runs report the same patterns and the same
\* recommendations, possibly in another order.
C27_TwoRunsSameContents ==
  (ret.op = "Analyze" /\ ret.n = 2) =>
    /\ Range(ret.report.Patterns) = Range(ret.first.Patterns)
    /\ Range(ret.report.Recommendations) = Range(ret.first.Recommendations)
    /\ ret.report.QualityTrend = ret.first.QualityTrend

\* The overall_pass values QualityTrend read in the last Analyze, newest
\* first, and the two halves it compares.
TrendResults ==
  [k \in 1..Len(QualityRows(store, ret.endIter - ret.startIter + 1))
     |-> QualityRows(store, ret.endIter - ret.startIter + 1)[k].pass]

FirstHalf == 1..(Len(TrendResults) \div 2)

SecondHalf == (Len(TrendResults) \div 2 + 1)..Len(TrendResults)

AllPass(half) == \A i \in half : TrendResults[i]

AllFail(half) == \A i \in half : ~TrendResults[i]

\* C29: QualityTrend returns "stable" when all snapshots pass; "degrading"
\* when, reading newest-first, the first half passes and the second half
\* fails; "improving" when the first half fails and the second half passes;
\* and "stable" when there are fewer than 2 snapshots.
C29_TrendAsStated ==
  ret.op = "Analyze" =>
    /\ AllPass(FirstHalf \cup SecondHalf) => ret.report.QualityTrend = "stable"
    /\ Len(TrendResults) < 2 => ret.report.QualityTrend = "stable"
    /\ (Len(TrendResults) >= 2 /\ AllPass(FirstHalf) /\ AllFail(SecondHalf))
         => ret.report.QualityTrend = "degrading"
    /\ (Len(TrendResults) >= 2 /\ AllFail(FirstHalf) /\ AllPass(SecondHalf))
         => ret.report.QualityTrend = "improving"

\* C29, as the code has it: reading newest-first, "degrading" when the
\* first (recent) half fails and the second (older) half passes, and
\* "improving" when the first half passes and the second half fails.
C29_TrendOfHalves ==
  ret.op = "Analyze" =>
    /\ AllPass(FirstHalf \cup SecondHalf) => ret.report.QualityTrend = "stable"
    /\ Len(TrendResults) < 2 => ret.report.QualityTrend = "stable"
    /\ (Len(TrendResults) >= 2 /\ AllFail(FirstHalf) /\ AllPass(SecondHalf))
         => ret.report.QualityTrend = "degrading"
    /\ (Len(TrendResults) >= 2 /\ AllPass(FirstHalf) /\ AllFail(SecondHalf))
         => ret.report.QualityTrend = "improving"

\* Three snapshots were read: the two older ones pass, the newest fails.
C29_Witness ==
  /\ ret.op = "Analyze"
  /\ TrendResults = <<FALSE, TRUE, TRUE>>
  /\ ret.report.QualityTrend = "degrading"

(***************************************************************************)
(* The Store's tasks table with the columns its scheduler reads, the       *)
(* task_dependencies table as a set of <<task_id, depends_on>> pairs, and  *)
(* Store.NextTask.  createdAt and completedAt are timestamps in seconds,   *)
(* 0 is NULL.                                                              *)
(***************************************************************************)
StoreTask(session, status, priority, maxAttempts, createdAt) ==
  [session |-> session, status |-> status, priority |-> priority,
   maxAttempts |-> maxAttempts, createdAt |-> createdAt, completedAt |-> 0]

\* store.InsertTask with all its columns; created_at is CURRENT_TIMESTAMP.
InsertTaskAt(st, id, row, now) ==
  IF id \in DOMAIN st.tasks THEN st
  ELSE [st EXCEPT !.tasks =
          [i \in DOMAIN st.tasks \cup {id} |->
             IF i = id THEN [row EXCEPT !.createdAt = now, !.completedAt = 0]
             ELSE st.tasks[i]]]

\* store.AddDependency: INSERT OR IGNORE, both ends reference tasks(id).
AddDependencyRow(st, taskID, dependsOn) ==
  IF {taskID, dependsOn} \subseteq DOMAIN st.tasks
    THEN [st EXCEPT !.deps = @ \cup {<<taskID, dependsOn>>}]
    ELSE st

\* SELECT COUNT(*) FROM attempts a WHERE a.task_id = t.id
attemptCount(st, id) ==
  Cardinality({k \in 1..Len(st.attempts) : st.attempts[k].task = id})

\* The WHERE clause of Store.NextTask without the attempts subquery.
StoreIsCandidateIgnoringAttempts(st, i) ==
  /\ st.tasks[i].session = sessionID
  /\ st.tasks[i].status \in {StatusPending, StatusInProgress}
  /\ ~\E e \in st.deps :
        e[1] = i /\ st.tasks[e[2]].status # StatusCompleted

\* The WHERE clause of Store.NextTask.
StoreIsCandidate(st, i) ==
  /\ st.tasks[i].session = sessionID
  /\ st.tasks[i].status \in {StatusPending, StatusInProgress}
  /\ ~\E e \in st.deps :
        e[1] = i /\ st.tasks[e[2]].status # StatusCompleted
  /\ attemptCount(st, i) < st.tasks[i].maxAttempts

StoreCandidates(st) == {i \in DOMAIN st.tasks : StoreIsCandidate(st, i)}

\* ORDER BY t.priority ASC, t.created_at ASC LIMIT 1: any row that no other
\* row precedes.
StoreNextTaskResults(st) ==
  {i \in StoreCandidates(st) :
     \A j \in StoreCandidates(st) : ~Less(st.tasks[j], st.tasks[i])}

(***************************************************************************)
(* SpecStore: a TaskDB and a Store loaded with its tasks through           *)
(* InsertTask and AddDependency.  The rows are inserted either at the      *)
(* times the TaskDB has as created_at or all within the second 1.          *)
(* Attempts are then recorded in both or in the Store alone, and           *)
(* Store.NextTask is asked.                                                *)
(***************************************************************************)
MaxStoreAttempts == 2

RECURSIVE loadTasks(_, _, _, _)
loadTasks(db, st, order, sameSecond) ==
  IF Len(order) = 0 THEN st
  ELSE loadTasks(db,
                 InsertTaskAt(st, order[1],
                              StoreTask(sessionID, db[order[1]].status,
                                        db[order[1]].priority,
                                        db[order[1]].maxAttempts, 0),
                              IF sameSecond THEN 1
                              ELSE db[order[1]].createdAt),
                 Tail(order), sameSecond)

RECURSIVE loadDeps(_, _, _)
loadDeps(db, st, edges) ==
  IF edges = {} THEN st
  ELSE LET e == CHOOSE x \in edges : TRUE
       IN loadDeps(db, AddDependencyRow(st, e[1], e[2]), edges \ {e})

EdgesOf(db) ==
  UNION {{<<i, d>> : d \in Range(db[i].dependsOn)} : i \in DOMAIN db}

StoreAttrs ==
  [status : {StatusPending, StatusInProgress, StatusCompleted, StatusFailed},
   priority : 0..MaxPriority, createdAt : 1..MaxTime,
   dependsOn : SeqsUpTo(SchedIds, MaxDeps), maxAttempts : 1..MaxAttemptsIn]

InitStore ==
  /\ \E D \in SUBSET SchedIds : \E f \in [D -> StoreAttrs] :
       tasks = [i \in D |-> SchedTask(i, f[i])]
  /\ clock = MaxTime
  /\ ret = NoRet
  /\ nops = 0
  /\ sup = IdleSup
  /\ env = IdleEnv
  /\ cfg = IdleCfg
  /\ conc = IdleConc
  /\ \E sameSecond \in BOOLEAN, order \in Perms(DOMAIN tasks) :
       store = loadDeps(tasks,
                        loadTasks(tasks,
                                  [session |-> "running", tasks |-> EmptyDB,
                                   deps |-> {}, attempts |-> <<>>,
                                   tokens |-> 0, log |-> <<>>],
                                  order, sameSecond),
                        EdgesOf(tasks))

\* runIteration's attempt: appended to the task in the TaskDB and recorded
\* in the Store, or recorded in the Store alone.
AttemptCall ==
  /\ ret = NoRet
  /\ nops < MaxStoreAttempts
  /\ \E id \in DOMAIN tasks, both \in BOOLEAN :
       /\ store' = RecordAttempt(store,
                                 AttemptRow(id, attemptCount(store, id) + 1, 0),
                                 FALSE).store
       /\ tasks' = IF both THEN runIteration(tasks, id, "failed") ELSE tasks
  /\ nops' = nops + 1
  /\ UNCHANGED <<clock, ret, sup, env, cfg, conc>>

\* Store.NextTask(sessionID)
StoreNextTask ==
  /\ ret = NoRet
  /\ \/ /\ StoreCandidates(store) = {}
        /\ ret' = [NoRet EXCEPT !.op = "Store.NextTask"]
     \/ \E id \in StoreNextTaskResults(store) :
          ret' = [NoRet EXCEPT !.op = "Store.NextTask", !.id = id]
  /\ UNCHANGED <<tasks, clock, nops, svars>>

NextStore ==
  \/ AttemptCall
  \/ StoreNextTask

SpecStore == InitStore /\ [][NextStore]_vars

\* The TaskDB and the Store hold the same tasks, dependency edges, statuses
\* and attempt counts.
SameData ==
  /\ DOMAIN tasks = DOMAIN store.tasks
  /\ \A i \in DOMAIN tasks :
       /\ store.tasks[i].session = sessionID
       /\ store.tasks[i].status = tasks[i].status
       /\ store.tasks[i].priority = tasks[i].priority
       /\ store.tasks[i].maxAttempts = tasks[i].maxAttempts
       /\ store.tasks[i].createdAt = tasks[i].createdAt
       /\ attemptCount(store, i) = Len(tasks[i].attempts)
  /\ store.deps = EdgesOf(tasks)

MaxStatusTime == 3

\* store.UpdateTaskStatus with the completed_at column.
UpdateTaskStatusAt(st, id, status, now) ==
  IF id \notin DOMAIN st.tasks THEN st
  ELSE IF status = StatusCompleted
    THEN [st EXCEPT !.tasks[id].status = status,
                    !.tasks[id].completedAt = now]
  ELSE [st EXCEPT !.tasks[id].status = status]

InitStatus ==
  /\ tasks = EmptyDB
  /\ clock = 1
  /\ ret = NoRet
  /\ nops = 0
  /\ sup = IdleSup
  /\ env = IdleEnv
  /\ cfg = IdleCfg
  /\ conc = IdleConc
  /\ store = [session |-> "running", tasks |-> EmptyDB, deps |-> {},
              attempts |-> <<>>, tokens |-> 0, log |-> <<>>]

StatusTick ==
  /\ clock < MaxStatusTime
  /\ clock' = clock + 1
  /\ UNCHANGED <<tasks, ret, nops, svars>>

\* store.InsertTask
InsertTaskCall ==
  /\ \E id \in SchedIds \ DOMAIN store.tasks,
        status \in {StatusPending, StatusCompleted} :
       /\ store' = InsertTaskAt(store, id,
                                StoreTask(sessionID, status, 1,
                                          DefaultMaxAttempts, 0),
                                clock)
       /\ ret' = [NoRet EXCEPT !.op = "InsertTask", !.id = id]
  /\ UNCHANGED <<tasks, clock, nops, sup, env, cfg, conc>>

\* store.UpdateTaskStatus
UpdateTaskStatusCall ==
  /\ \E id \in DOMAIN store.tasks, status \in Statuses :
       /\ store' = UpdateTaskStatusAt(store, id, status, clock)
       /\ ret' = [NoRet EXCEPT !.op = "UpdateTaskStatus", !.id = id]
  /\ UNCHANGED <<tasks, clock, nops, sup, env, cfg, conc>>

NextStatus ==
  \/ StatusTick
  \/ InsertTaskCall
  \/ UpdateTaskStatusCall

SpecStatus == InitStatus /\ [][NextStatus]_vars

\* C30: after any sequence of UpdateTaskStatus calls on a task, the task's
\* completed_at is set if and only if its current status is completed.
C30_CompletedAtIffCompleted ==
  ret.op = "UpdateTaskStatus" =>
    (store.tasks[ret.id].completedAt # 0
       <=> store.tasks[ret.id].status = StatusCompleted)

\* What the code keeps: after UpdateTaskStatus a completed task has its
\* completed_at set.
C30_CompletedHasCompletedAt ==
  ret.op = "UpdateTaskStatus" =>
    (store.tasks[ret.id].status = StatusCompleted
       => store.tasks[ret.id].completedAt # 0)

(***************************************************************************)
(* SpecInsert: one database file holds the rows of two sessions, and       *)
(* InsertTask is called for either of them with any identifier.  ret.held  *)
(* is the session whose row had the identifier before the call, NoSession  *)
(* if there was none.                                                      *)
(***************************************************************************)
NoSession == -1

Sessions == {EarlierSession, sessionID}

InitInsert ==
  /\ tasks = EmptyDB
  /\ clock = 1
  /\ ret = NoRet
  /\ nops = 0
  /\ sup = IdleSup
  /\ env = IdleEnv
  /\ cfg = IdleCfg
  /\ conc = IdleConc
  /\ store = EmptyStore

\* store.InsertTask
InsertCall ==
  /\ \E id \in SchedIds, session \in Sessions,
        status \in {StatusPending, StatusCompleted} :
     \E r \in {InsertTask(store, id, session, status)} :
       /\ store' = r.store
       /\ ret' = [op |-> "InsertTask", id |-> id, session |-> session,
                  err |-> r.err,
                  held |-> IF id \in DOMAIN store.tasks
                           THEN store.tasks[id].session ELSE NoSession]
  /\ UNCHANGED <<tasks, clock, nops, sup, env, cfg, conc>>

\* store.UpdateTaskStatus
InsertUpdateCall ==
  /\ \E id \in DOMAIN store.tasks, status \in {StatusInProgress, StatusFailed} :
       /\ store' = UpdateTaskStatus(store, id, status)
       /\ ret' = [op |-> "UpdateTaskStatus", id |-> id,
                  session |-> store.tasks[id].session, err |-> "",
                  held |-> store.tasks[id].session]
  /\ UNCHANGED <<tasks, clock, nops, sup, env, cfg, conc>>

NextInsert ==
  \/ InsertCall
  \/ InsertUpdateCall

SpecInsert == InitInsert /\ [][NextInsert]_vars

\* C31: task identifiers are unique within a session: InsertTask fails
\* exactly when a task with the same identifier already exists in the same
\* session, so the same identifier may be inserted for tasks of two
\* different sessions of the same database.
C31_FailsExactlyOnSameSession ==
  ret.op = "InsertTask" => (ret.err # "" <=> ret.held = ret.session)

\* What the primary key on tasks.id gives: InsertTask fails exactly when
\* the identifier is already a row, of whichever session.
C31_FailsExactlyOnAnyRow ==
  ret.op = "InsertTask" => (ret.err # "" <=> ret.held # NoSession)

(***************************************************************************)
(* store.Open and migrate.  A database file is [schema, version, tasks]:   *)
(* schema says whether the schema_version table exists, version is         *)
(* MAX(version) of its rows.  SpecOpen opens and closes the file with this *)
(* build, inserts tasks while it is open, and lets a build with another    *)
(* schema version record its version while it is closed.                   *)
(***************************************************************************)
currentSchemaVersion == 1
MaxVersion == 2

ErrOlder == "schema version is older, migration not yet implemented"

\* Store.migrate
migrate(file) ==
  IF ~file.schema
    THEN [file |-> [file EXCEPT !.schema = TRUE,
                                !.version = currentSchemaVersion],
          err |-> ""]
  ELSE IF file.version < currentSchemaVersion
    THEN [file |-> file, err |-> ErrOlder]
  ELSE [file |-> file, err |-> ""]

InitOpen ==
  /\ tasks = EmptyDB
  /\ clock = 1
  /\ ret = NoRet
  /\ nops = 0
  /\ sup = IdleSup
  /\ env = IdleEnv
  /\ cfg = IdleCfg
  /\ conc = IdleConc
  /\ store = [session |-> "running", tasks |-> EmptyDB, attempts |-> <<>>,
              tokens |-> 0, log |-> <<>>, schema |-> FALSE, version |-> 0,
              open |-> FALSE]

\* store.Open: a failed migrate closes the database again.
OpenCall ==
  /\ ~store.open
  /\ \E m \in {migrate(store)} :
       /\ store' = [m.file EXCEPT !.open = (m.err = "")]
       /\ ret' = [op |-> "Open", err |-> m.err, schema |-> store.schema,
                  version |-> store.version]
  /\ UNCHANGED <<tasks, clock, nops, sup, env, cfg, conc>>

\* Store.Close
CloseCall ==
  /\ store.open
  /\ store' = [store EXCEPT !.open = FALSE]
  /\ ret' = [op |-> "Close", err |-> "", schema |-> store.schema,
             version |-> store.version]
  /\ UNCHANGED <<tasks, clock, nops, sup, env, cfg, conc>>

\* store.InsertTask on the open database.
OpenInsertCall ==
  /\ store.open
  /\ \E id \in SchedIds, session \in Sessions,
        status \in {StatusPending, StatusCompleted} :
     \E r \in {InsertTask(store, id, session, status)} :
       /\ store' = r.store
       /\ ret' = [op |-> "InsertTask", err |-> r.err,
                  schema |-> store.schema, version |-> store.version]
  /\ UNCHANGED <<tasks, clock, nops, sup, env, cfg, conc>>

\* A build whose schema version is v has created or migrated the file.
OtherBuild ==
  /\ ~store.open
  /\ \E v \in 0..MaxVersion :
       /\ v # currentSchemaVersion
       /\ store.schema => v > store.version
       /\ store' = [store EXCEPT !.schema = TRUE, !.version = v]
  /\ ret' = NoRet
  /\ UNCHANGED <<tasks, clock, nops, sup, env, cfg, conc>>

NextOpen ==
  \/ OpenCall
  \/ CloseCall
  \/ OpenInsertCall
  \/ OtherBuild

SpecOpen == InitOpen /\ [][NextOpen]_vars

\* C32: opening the Store applies the full schema and records the current
\* version when no schema is present, applies sequential forward migrations
\* when a lower version is recorded, and fails with an explicit "newer
\* schema" error when a higher version is recorded.
C32_OpenAsStated ==
  ret.op = "Open" =>
    /\ ~ret.schema =>
         ret.err = "" /\ store.schema /\ store.version = currentSchemaVersion
    /\ (ret.schema /\ ret.version < currentSchemaVersion) =>
         ret.err = "" /\ store.version = currentSchemaVersion
    /\ (ret.schema /\ ret.version > currentSchemaVersion) =>
         ret.err # "" /\ ~store.open

\* The branch for a lower version alone.
C32_LowerVersionMigrated ==
  (ret.op = "Open" /\ ret.schema /\ ret.version < currentSchemaVersion) =>
    ret.err = "" /\ store.version = currentSchemaVersion

\* The branch for a higher version alone.
C32_HigherVersionRefused ==
  (ret.op = "Open" /\ ret.schema /\ ret.version > currentSchemaVersion) =>
    ret.err # "" /\ ~store.open

\* What migrate does: a file without schema gets it with the current
\* version; a lower version is refused and nothing is migrated; a higher
\* version is opened as it is.
C32_OpenAsCoded ==
  ret.op = "Open" =>
    /\ ~ret.schema =>
         ret.err = "" /\ store.schema /\ store.version = currentSchemaVersion
    /\ (ret.schema /\ ret.version < currentSchemaVersion) =>
         ret.err = ErrOlder /\ ~store.open /\ store.version = ret.version
    /\ (ret.schema /\ ret.version > currentSchemaVersion) =>
         ret.err = "" /\ store.open /\ store.version = ret.version

(***************************************************************************)
(* SpecTrend: quality snapshots of two sessions are recorded, with a       *)
(* failed_tests_json that is empty, invalid or a list of names, and        *)
(* FailingTestTrend is asked for the last lastN snapshots of the session.  *)
(***************************************************************************)
MaxTrendRows == 3

TrendInputs ==
  {Snapshot(session, column = "empty", column, failed) :
     session \in Sessions,
     column \in {"empty", "invalid"}, failed \in {<<>>}} \cup
  {Snapshot(session, FALSE, "list", failed) :
     session \in Sessions,
     failed \in {<<"t1">>, <<"t1", "t1">>, <<"t1", "t2">>}}

InitTrend ==
  /\ tasks = EmptyDB
  /\ clock = 1
  /\ ret = NoRet
  /\ nops = 0
  /\ sup = IdleSup
  /\ env = IdleEnv
  /\ cfg = IdleCfg
  /\ conc = IdleConc
  /\ store = [session |-> "running", tasks |-> EmptyDB, attempts |-> <<>>,
              tokens |-> 0, log |-> <<>>, snapshots |-> <<>>]

\* store.RecordQuality
TrendRecordQuality ==
  /\ ret = NoRet
  /\ Len(store.snapshots) < MaxTrendRows
  /\ \E q \in TrendInputs :
       store' = [store EXCEPT !.snapshots = Append(@, q)]
  /\ UNCHANGED <<tasks, clock, ret, nops, sup, env, cfg, conc>>

\* store.FailingTestTrend(sessionID, lastN)
FailingTestTrendCall ==
  /\ ret = NoRet
  /\ \E lastN \in 1..MaxTrendRows :
       ret' = [op |-> "FailingTestTrend", lastN |-> lastN, err |-> "",
               counts |-> FailingTestTrend(store, lastN)]
  /\ UNCHANGED <<tasks, clock, nops, svars>>

NextTrend ==
  \/ TrendRecordQuality
  \/ FailingTestTrendCall

SpecTrend == InitTrend /\ [][NextTrend]_vars

\* The lastN most recent quality snapshots of the session.
MostRecentSnapshots(lastN) ==
  NewestFirst(SelectSeq(store.snapshots, LAMBDA q : q.session = sessionID),
              lastN)

\* C33: FailingTestTrend(session, N) returns, for each test name, the
\* number of its appearances in the failed-tests lists of the N most recent
\* quality snapshots of the session; snapshots whose payload is not valid
\* JSON are skipped and never make the query fail.
C33_CountsOverMostRecentSnapshots ==
  ret.op = "FailingTestTrend" =>
    /\ ret.err = ""
    /\ ret.counts = trendCounts(MostRecentSnapshots(ret.lastN))

\* What the query counts: the names in the lastN most recent snapshots of
\* the session among those with a payload; no name is counted from another
\* session, and none more often than it appears in the session.
C33_CountsWithinSession ==
  ret.op = "FailingTestTrend" =>
    /\ ret.err = ""
    /\ \A t \in DOMAIN ret.counts :
         /\ ret.counts[t] >= 1
         /\ ret.counts[t] <=
              countIn(MostRecentSnapshots(Len(store.snapshots)), t, 1)

(***************************************************************************)
(* SpecSave: db.go Save and Load.  encoding/json writes each Task as an    *)
(* object; a field tagged omitempty is left out when it is empty (a nil or *)
(* empty slice, a nil pointer, an empty string); a string is coerced to    *)
(* valid UTF-8, every invalid byte becoming U+FFFD; a time.Time is written *)
(* as the RFC 3339 text of its wall clock, without the monotonic reading   *)
(* time.Now() attaches.  Unmarshal starts from the zero Task and sets the  *)
(* fields the object has.                                                  *)
(***************************************************************************)
InvalidByte == "\\xff"

ReplacementRune == "\\ufffd"

\* A Go slice: nil, or a (possibly empty) sequence of elements.
Slice(isNil, elems) == [isNil |-> isNil, elems |-> elems]

NilSlice == Slice(TRUE, <<>>)

\* A time.Time: the wall clock instant and whether a monotonic reading is
\* attached.
GoTime(wall, mono) == [wall |-> wall, mono |-> mono]

\* A *time.Time that is nil.
NilTime == [wall |-> 0, mono |-> FALSE, isNil |-> TRUE]

PtrTime(wall, mono) == [wall |-> wall, mono |-> mono, isNil |-> FALSE]

\* task.go Attempt
SavedAttempt(number, success, errorMsg) ==
  [number |-> number, success |-> success, errorMsg |-> errorMsg]

\* task.go Task
SavedTask(id, title, status, dependsOn, attempts, createdAt, completedAt) ==
  [id |-> id, title |-> title, status |-> status, priority |-> 0,
   maxAttempts |-> DefaultMaxAttempts, dependsOn |-> dependsOn,
   attempts |-> attempts, createdAt |-> createdAt,
   completedAt |-> completedAt]

\* encoding/json: a string is written coerced to valid UTF-8.
marshalString(s) ==
  [k \in 1..Len(s) |-> IF s[k] = InvalidByte THEN ReplacementRune ELSE s[k]]

\* time.Time.MarshalJSON
marshalTime(t) == t.wall

\* time.Time.UnmarshalJSON
unmarshalTime(text) == GoTime(text, FALSE)

marshalAttempt(a) ==
  [k \in {"number", "agent_name", "success", "started_at"} \cup
         (IF a.errorMsg # <<>> THEN {"error_msg"} ELSE {}) |->
     CASE k = "number" -> a.number
       [] k = "success" -> a.success
       [] k = "error_msg" -> marshalString(a.errorMsg)
       [] OTHER -> 0]

unmarshalAttempt(doc) ==
  SavedAttempt(doc["number"], doc["success"],
               IF "error_msg" \in DOMAIN doc THEN doc["error_msg"] ELSE <<>>)

marshalTask(t) ==
  [k \in {"id", "title", "description", "status", "priority", "complexity",
          "max_attempts", "created_at"} \cup
         (IF t.dependsOn.elems # <<>> THEN {"depends_on"} ELSE {}) \cup
         (IF t.attempts.elems # <<>> THEN {"attempts"} ELSE {}) \cup
         (IF ~t.completedAt.isNil THEN {"completed_at"} ELSE {}) |->
     CASE k = "id" -> t.id
       [] k = "title" -> marshalString(t.title)
       [] k = "status" -> t.status
       [] k = "priority" -> t.priority
       [] k = "max_attempts" -> t.maxAttempts
       [] k = "created_at" -> marshalTime(t.createdAt)
       [] k = "depends_on" -> t.dependsOn.elems
       [] k = "attempts" ->
            [j \in 1..Len(t.attempts.elems) |->
               marshalAttempt(t.attempts.elems[j])]
       [] k = "completed_at" -> marshalTime(t.completedAt)
       [] OTHER -> 0]

\* A decoder that drops the attempts of every task.
unmarshalTaskWithoutAttempts(doc) ==
  [id |-> doc["id"], title |-> doc["title"], status |-> doc["status"],
   priority |-> doc["priority"], maxAttempts |-> doc["max_attempts"],
   dependsOn |-> IF "depends_on" \in DOMAIN doc
                   THEN Slice(FALSE, doc["depends_on"]) ELSE NilSlice,
   attempts |-> NilSlice,
   createdAt |-> unmarshalTime(doc["created_at"]),
   completedAt |-> IF "completed_at" \in DOMAIN doc
                     THEN PtrTime(doc["completed_at"], FALSE) ELSE NilTime]

unmarshalTask(doc) ==
  [id |-> doc["id"], title |-> doc["title"], status |-> doc["status"],
   priority |-> doc["priority"], maxAttempts |-> doc["max_attempts"],
   dependsOn |-> IF "depends_on" \in DOMAIN doc
                   THEN Slice(FALSE, doc["depends_on"]) ELSE NilSlice,
   attempts |-> IF "attempts" \in DOMAIN doc
                  THEN Slice(FALSE, [j \in 1..Len(doc["attempts"]) |->
                                      unmarshalAttempt(doc["attempts"][j])])
                  ELSE NilSlice,
   createdAt |-> unmarshalTime(doc["created_at"]),
   completedAt |-> IF "completed_at" \in DOMAIN doc
                     THEN PtrTime(doc["completed_at"], FALSE) ELSE NilTime]

\* db.go Save: json.MarshalIndent of the Tasks map.
Save(db) == [i \in DOMAIN db |-> marshalTask(db[i])]

\* db.go Load: json.Unmarshal into an empty DB.
Load(file) == [i \in DOMAIN file |-> unmarshalTask(file[i])]

NoFile == [exists |-> FALSE, data |-> <<>>]

MaxSavedTasks == 2

SavedTitles == {<<>>, <<"T">>, <<"T", InvalidByte>>}

SavedDependsOn == {NilSlice, Slice(FALSE, <<>>), Slice(FALSE, <<"a">>)}

SavedAttempts ==
  {NilSlice} \cup
  {Slice(FALSE, <<SavedAttempt(1, FALSE, msg)>>) :
     msg \in {<<"e">>, <<"e", InvalidByte>>}}

\* The tasks db.Add is given: CreatedAt is the zero time or a time the
\* caller read with time.Now().
SavedTaskInputs ==
  {SavedTask(id, title, "pending", deps, atts, GoTime(w, w # 0), NilTime) :
     id \in SchedIds, title \in SavedTitles, deps \in SavedDependsOn,
     atts \in SavedAttempts, w \in {0, 1}} \cup
  {SavedTask(id, title, "completed", deps, NilSlice, GoTime(1, TRUE),
             PtrTime(2, TRUE)) :
     id \in SchedIds, title \in SavedTitles, deps \in SavedDependsOn}

InitSave ==
  /\ tasks = EmptyDB
  /\ clock = 1
  /\ ret = NoRet
  /\ nops = 0
  /\ sup = IdleSup
  /\ env = NoFile
  /\ cfg = IdleCfg
  /\ store = EmptyStore
  /\ conc = IdleConc

\* db.Add: addLocked sets CreatedAt to time.Now() when it is the zero time.
SaveAddCall ==
  /\ ~env.exists
  /\ \E t \in SavedTaskInputs :
       /\ t.id \notin DOMAIN tasks
       /\ Cardinality(DOMAIN tasks) < MaxSavedTasks
       /\ tasks' = Put(tasks,
                       [t EXCEPT !.createdAt =
                          IF @.wall = 0 THEN GoTime(clock, TRUE) ELSE @])
  /\ UNCHANGED <<clock, ret, nops, svars>>

\* db.Save(path)
SaveCall ==
  /\ ~env.exists
  /\ env' = [exists |-> TRUE, data |-> Save(tasks)]
  /\ UNCHANGED <<tasks, clock, ret, nops, sup, cfg, store, conc>>

\* taskdb.Load(path)
LoadCall ==
  /\ env.exists
  /\ ret = NoRet
  /\ ret' = [op |-> "Load", err |-> "", db |-> Load(env.data)]
  /\ UNCHANGED <<tasks, clock, nops, svars>>

NextSave ==
  \/ SaveAddCall
  \/ SaveCall
  \/ LoadCall

SpecSave == InitSave /\ [][NextSave]_vars

\* Two tasks with the same contents: a nil and an empty slice are the same
\* list, and two times are the same when they are the same instant.
SameTask(x, y) ==
  /\ x.id = y.id
  /\ x.title = y.title
  /\ x.status = y.status
  /\ x.priority = y.priority
  /\ x.maxAttempts = y.maxAttempts
  /\ x.dependsOn.elems = y.dependsOn.elems
  /\ x.attempts.elems = y.attempts.elems
  /\ x.createdAt.wall = y.createdAt.wall
  /\ x.completedAt.isNil = y.completedAt.isNil
  /\ x.completedAt.wall = y.completedAt.wall

SameDB(x, y) ==
  /\ DOMAIN x = DOMAIN y
  /\ \A i \in DOMAIN x : SameTask(x[i], y[i])

ValidUTF8(s) == InvalidByte \notin Range(s)

AllValidUTF8(db) ==
  \A i \in DOMAIN db :
    /\ ValidUTF8(db[i].title)
    /\ \A j \in 1..Len(db[i].attempts.elems) :
         ValidUTF8(db[i].attempts.elems[j].errorMsg)

\* C34 as stated: for every TaskDB db, Load(Save(db)) is structurally equal
\* to db (same tasks, statuses, upstream lists, attempts and attributes).
C34_RoundTripEveryDB ==
  ret.op = "Load" => SameDB(ret.db, tasks)

\* C34: for every TaskDB db whose strings are valid UTF-8, Load(Save(db))
\* has the same tasks as db, with the same statuses, upstream lists,
\* attempts and attributes.
C34_RoundTripValidUTF8 ==
  (ret.op = "Load" /\ AllValidUTF8(tasks)) => SameDB(ret.db, tasks)

\* A database with a dependency, an attempt, an empty slice and a time read
\* from the clock has been saved and loaded.
C34_Witness ==
  /\ ret.op = "Load"
  /\ AllValidUTF8(tasks)
  /\ Cardinality(DOMAIN tasks) = MaxSavedTasks
  /\ \E i \in DOMAIN tasks :
       /\ tasks[i].dependsOn.elems # <<>>
       /\ tasks[i].attempts.elems # <<>>
       /\ tasks[i].createdAt.mono
  /\ \E i \in DOMAIN tasks :
       /\ ~tasks[i].dependsOn.isNil
       /\ tasks[i].dependsOn.elems = <<>>
       /\ ~tasks[i].completedAt.isNil

(***************************************************************************)
(* SpecQuality: the quality-check command allowlist of the ralph loop.  A  *)
(* command is a sequence of pieces: a space, a slash, a semicolon or a     *)
(* word without any of them.                                               *)
(***************************************************************************)
allowedQualityCheckCommands ==
  {"npm", "npx", "pnpm", "yarn", "bun", "go", "cargo", "rustc", "python",
   "python3", "pytest", "pip", "make", "gradle", "mvn", "eslint",
   "prettier", "tsc", "jest", "vitest", "mocha"}

Space == " "

Slash == "/"

CommandPieces == {Space, Slash, ";", "go", "rm"}

MaxCommandLen == 3

MaxRunCommandLen == 2

MaxChecks == 2

\* strings.Fields: the maximal runs of pieces that are not spaces.
RECURSIVE FieldsFrom(_, _, _, _)
FieldsFrom(command, k, cur, acc) ==
  IF k > Len(command)
    THEN (IF cur = <<>> THEN acc ELSE Append(acc, cur))
    ELSE IF command[k] = Space
           THEN FieldsFrom(command, k + 1, <<>>,
                           IF cur = <<>> THEN acc ELSE Append(acc, cur))
           ELSE FieldsFrom(command, k + 1, Append(cur, command[k]), acc)

Fields(command) == FieldsFrom(command, 1, <<>>, <<>>)

RECURSIVE TrimSlashes(_)
TrimSlashes(path) ==
  IF path # <<>> /\ path[Len(path)] = Slash
    THEN TrimSlashes(SubSeq(path, 1, Len(path) - 1))
    ELSE path

LastSlash(path) ==
  IF \E k \in 1..Len(path) : path[k] = Slash
    THEN CHOOSE k \in 1..Len(path) :
           /\ path[k] = Slash
           /\ \A j \in (k + 1)..Len(path) : path[j] # Slash
    ELSE 0

\* filepath.Base: "." for the empty path; trailing slashes are removed, then
\* everything up to the last slash; "/" when nothing is left.
Base(path) ==
  IF path = <<>> THEN <<".">>
  ELSE LET trimmed == TrimSlashes(path)
           rest == SubSeq(trimmed, LastSlash(trimmed) + 1, Len(trimmed))
       IN  IF rest = <<>> THEN <<Slash>> ELSE rest

\* The word a sequence of pieces spells is in the allowlist.
IsAllowedName(base) ==
  /\ Len(base) = 1
  /\ base[1] \in allowedQualityCheckCommands

ErrEmptyCommand == "empty command"

ErrNotInAllowlist == "command not in allowlist"

NoCommandErr == [err |-> "", token |-> <<>>]

\* A validation that accepts every command whose first token begins with an
\* allowed name.
validateByPrefix(command) ==
  LET parts == Fields(command)
  IN  IF Len(parts) = 0 THEN [err |-> ErrEmptyCommand, token |-> <<>>]
      ELSE IF parts[1][1] \in allowedQualityCheckCommands THEN NoCommandErr
      ELSE [err |-> ErrNotInAllowlist, token |-> Base(parts[1])]

validateQualityCheckCommand(command) ==
  LET parts == Fields(command)
  IN  IF Len(parts) = 0 THEN [err |-> ErrEmptyCommand, token |-> <<>>]
      ELSE IF IsAllowedName(Base(parts[1])) THEN NoCommandErr
      ELSE [err |-> ErrNotInAllowlist, token |-> Base(parts[1])]

\* runQualityChecks from check k on: before each check the context is
\* tested, then the command is validated, then sh -c runs it; failing is
\* the set of checks whose command exits with an error, cancelAt the check
\* before which the context is done (0: never).
RECURSIVE runQualityChecksFrom(_, _, _, _, _)
runQualityChecksFrom(checks, k, failing, cancelAt, executed) ==
  IF k > Len(checks) THEN [err |-> "", at |-> 0, executed |-> executed]
  ELSE IF cancelAt = k
    THEN [err |-> "context canceled", at |-> k, executed |-> executed]
  ELSE IF validateQualityCheckCommand(checks[k]).err # ""
    THEN [err |-> "invalid quality check", at |-> k, executed |-> executed]
  ELSE IF k \in failing
    THEN [err |-> "check failed", at |-> k,
          executed |-> Append(executed, k)]
  ELSE runQualityChecksFrom(checks, k + 1, failing, cancelAt,
                            Append(executed, k))

runQualityChecks(checks, failing, cancelAt) ==
  runQualityChecksFrom(checks, 1, failing, cancelAt, <<>>)

Commands == SeqsUpTo(CommandPieces, MaxCommandLen)

RunCommands == SeqsUpTo(CommandPieces, MaxRunCommandLen)

InitQuality ==
  /\ tasks = EmptyDB
  /\ clock = 1
  /\ ret = NoRet
  /\ nops = 0
  /\ sup = IdleSup
  /\ env = IdleEnv
  /\ cfg = IdleCfg
  /\ store = EmptyStore
  /\ conc = IdleConc

\* validateQualityCheckCommand(command)
ValidateCall ==
  /\ ret = NoRet
  /\ \E command \in Commands :
       ret' = [op |-> "validateQualityCheckCommand", command |-> command,
               result |-> validateQualityCheckCommand(command)]
  /\ UNCHANGED <<tasks, clock, nops, svars>>

\* l.runQualityChecks(ctx) with the configured checks
RunQualityChecksCall ==
  /\ ret = NoRet
  /\ \E checks \in SeqsUpTo(RunCommands, MaxChecks) :
       \E failing \in SUBSET (1..Len(checks)), cancelAt \in 0..Len(checks) :
         ret' = [op |-> "runQualityChecks", checks |-> checks,
                 result |-> runQualityChecks(checks, failing, cancelAt)]
  /\ UNCHANGED <<tasks, clock, nops, svars>>

NextQuality ==
  \/ ValidateCall
  \/ RunQualityChecksCall

SpecQuality == InitQuality /\ [][NextQuality]_vars

\* The first token of a command: the pieces from the first one that is not
\* a space up to the next space or the end.
HasToken(command) == \E k \in 1..Len(command) : command[k] # Space

TokenStart(command) ==
  CHOOSE k \in 1..Len(command) :
    /\ command[k] # Space
    /\ \A j \in 1..(k - 1) : command[j] = Space

TokenEnd(command) ==
  CHOOSE k \in TokenStart(command)..Len(command) :
    /\ \A j \in TokenStart(command)..k : command[j] # Space
    /\ k = Len(command) \/ command[k + 1] = Space

\* The basename of the first token is an allowed name: the token is the
\* name, optionally after a directory part ending in a slash, optionally
\* followed by slashes.
FirstTokenNamesAllowed(command) ==
  /\ HasToken(command)
  /\ \E k \in TokenStart(command)..TokenEnd(command) :
       /\ command[k] \in allowedQualityCheckCommands
       /\ k = TokenStart(command) \/ command[k - 1] = Slash
       /\ \A j \in (k + 1)..TokenEnd(command) : command[j] = Slash

\* C35: a quality-check command is accepted if and only if the basename of
\* its first token is in the allowlist; every other command (including the
\* empty command) fails validation with an explicit error and is never
\* executed.
C35_AcceptedIffAllowlisted ==
  /\ ret.op = "validateQualityCheckCommand" =>
       /\ ret.result.err = "" <=> FirstTokenNamesAllowed(ret.command)
       /\ ret.result.err \in {"", ErrEmptyCommand, ErrNotInAllowlist}
       /\ ret.command = <<>> => ret.result.err = ErrEmptyCommand
  /\ ret.op = "runQualityChecks" =>
       /\ \A k \in Range(ret.result.executed) :
            FirstTokenNamesAllowed(ret.checks[k])
       /\ \A k \in 1..Len(ret.checks) :
            (/\ ~FirstTokenNamesAllowed(ret.checks[k])
             /\ \A j \in 1..(k - 1) : j \in Range(ret.result.executed)
             /\ ret.result.err # "context canceled"
             /\ ret.result.err # "check failed")
            => (ret.result.err = "invalid quality check"
                /\ ret.result.at = k)

\* A path-prefixed allowed command was executed and the check after it,
\* which begins with an allowed name followed by a semicolon, was refused.
C35_Witness ==
  /\ ret.op = "runQualityChecks"
  /\ Len(ret.checks) = 2
  /\ ret.checks[1] = <<Slash, "go">>
  /\ ret.checks[2] = <<"go", ";">>
  /\ ret.result.executed = <<1>>
  /\ ret.result.err = "invalid quality check"

\* A command with leading spaces and a directory part is accepted.
C35_WitnessAccepted ==
  /\ ret.op = "validateQualityCheckCommand"
  /\ ret.command = <<Space, Slash, "go">>
  /\ ret.result.err = ""

(***************************************************************************)
(* C40: two calls of NextTask on the same TaskDB, under SpecSched.         *)
(***************************************************************************)
TwoCallsSameDB ==
  /\ ret.op = "NextTask"
  /\ ret'.op = "NextTask"
  /\ tasks' = tasks

\* Two candidates with the same (priority, created_at) key.
TiedCandidates(db) ==
  \E i, j \in Candidates(db) :
    /\ i # j
    /\ db[i].priority = db[j].priority
    /\ db[i].createdAt = db[j].createdAt

\* C40: NextTask is deterministic: for a fixed TaskDB state every call
\* returns the same task, including when several candidates share the same
\* (priority, created_at) key.
C40_NextTaskDeterministic ==
  [][TwoCallsSameDB => ret'.id = ret.id]_vars

\* Without two candidates of the same key the calls agree.
C40_DeterministicWithoutTies ==
  [][(TwoCallsSameDB /\ ~TiedCandidates(tasks)) => ret'.id = ret.id]_vars

(***************************************************************************)
(* SpecSession: Run on sessions long enough for a task to use up its       *)
(* attempts before the last sprint, and RunSprint called on its own.       *)
(***************************************************************************)
SessionMaxSprints == 3

SessionSprintSizes == {1, SessionMaxSprints}

SessionMaxFails == {1, DefaultMaxAttempts}

SessionConfigs ==
  {[SprintSize |-> ss, MaxSprints |-> ms, MaxConsecutiveFails |-> mf,
    Budget |-> b, JournalEnabled |-> FALSE, AutoCommit |-> TRUE,
    ReviewEnabled |-> rv # "", ReviewAfter |-> rv,
    MaxReviewRounds |-> 1, reviewer |-> rv # "",
    runner |-> "noop", prd |-> prd] :
     ss \in SessionSprintSizes, ms \in 2..SessionMaxSprints,
     mf \in SessionMaxFails, b \in Budgets, rv \in {"", "sprint"},
     prd \in Prds} \cup
  {[SprintSize |-> ss, MaxSprints |-> 1, MaxConsecutiveFails |-> mf,
    Budget |-> b, JournalEnabled |-> FALSE, AutoCommit |-> TRUE,
    ReviewEnabled |-> FALSE, ReviewAfter |-> "",
    MaxReviewRounds |-> 1, reviewer |-> FALSE,
    runner |-> "agent", prd |-> prd] :
     ss \in SessionSprintSizes, mf \in SessionMaxFails, b \in Budgets,
     prd \in Prds}

InitSession ==
  /\ tasks = EmptyDB
  /\ clock = 0
  /\ ret = NoRet
  /\ nops = 0
  /\ conc = IdleConc
  /\ env = IdleEnv
  /\ cfg \in SessionConfigs
  /\ store = EmptyStore
  /\ sup = [IdleSup EXCEPT !.pc = "start"]

SpecSession == InitSession /\ [][NextRun]_vars

\* RunSprint has returned to Run without an error and without reporting
\* the budget exceeded, and the context is not cancelled.
SprintEndedNormally ==
  /\ sup.pc = "afterSprint"
  /\ sup.sprintErr = ""
  /\ ~sup.result.BudgetExceeded
  /\ ~env.cancelled

\* C37: every sprint the supervisor starts while the budget is not exceeded
\* and the context is not cancelled attempts at least one task: when no
\* task is runnable (every remaining task is exhausted, blocked or not
\* pending) the supervisor goes to finalize instead of running further
\* sprints, retrospectives and review gates up to max_sprints.
C37_EverySprintAttemptsATask ==
  SprintEndedNormally => sup.result.TasksAttempted >= 1

\* A sprint without an attempt is one that found no runnable task at its
\* first pass, in a TaskDB that is not complete.
C37_EmptySprintHadNoRunnableTask ==
  (SprintEndedNormally /\ sup.result.TasksAttempted = 0)
    => (NextTaskResults(tasks) = {} /\ ~IsComplete(tasks))

(***************************************************************************)
(* C38: the iteration count handed to the budget, under SpecSession.       *)
(***************************************************************************)
\* RunSprint is at the head of a loop pass that will ask budget.Check.
AtBudgetCheck == sup.pc = "sprint" /\ sup.i < cfg.SprintSize

\* The sprint has reported the iteration budget exceeded.
IterationBudgetReported ==
  /\ sup.result.BudgetExceeded
  /\ sup.result.AbortReason = "iteration budget exceeded"

\* C38: with max_iterations = N > 0 and enough runnable work, a session
\* executes exactly N iterations before the budget is reported exceeded:
\* the iterations_used value passed to Check always equals the number of
\* iterations already executed in the session.
C38_CheckGetsIterationsExecuted ==
  /\ AtBudgetCheck => sup.srIteration = Len(sup.started)
  /\ IterationBudgetReported => Len(sup.started) = cfg.Budget.MaxIterations

\* What Check is given while the context is not cancelled: the number of
\* the iteration about to run, one more than the iterations executed; the
\* budget is reported exceeded after N - 1 iterations.
C38_CheckGetsNextIterationNumber ==
  /\ (AtBudgetCheck /\ ~env.cancelled)
       => sup.srIteration = Len(sup.started) + 1
  /\ (IterationBudgetReported /\ ~env.cancelled)
       => Len(sup.started) = cfg.Budget.MaxIterations - 1

(***************************************************************************)
(* C39: the counts of the report the retrospective saves at the end of     *)
(* RunSprint, under SpecSession.  The step Retro calls                     *)
(* Analyze(sprintNum, startIter, sr.iteration) on the Store as it is when  *)
(* the loop of RunSprint has ended.                                        *)
(***************************************************************************)
RetroStep == sup.pc = "retro" /\ sup'.pc # "retro"

SavedReport == countOutcomes(store, sup.startIter, sup.srIteration)

\* The attempt rows written in the iterations of the sprint.
SprintRows ==
  {k \in 1..Len(store.attempts) :
     /\ store.attempts[k].iteration >= sup.startIter
     /\ store.attempts[k].iteration < sup.srIteration}

\* The attempt of the TaskDB a row stands for succeeded.
RowSucceeded(k) ==
  LET row == store.attempts[k]
  IN /\ row.task \in DOMAIN tasks
     /\ row.number <= Len(tasks[row.task].attempts)
     /\ tasks[row.task].attempts[row.number].success

AttemptedInSprint == {store.attempts[k].task : k \in SprintRows}

SucceededInSprint ==
  {store.attempts[k].task : k \in {j \in SprintRows : RowSucceeded(j)}}

FailedInSprint ==
  {store.attempts[k].task : k \in {j \in SprintRows : ~RowSucceeded(j)}}

\* C39: the sprint report saved by the retrospective at the end of
\* RunSprint counts as attempted, completed and failed exactly the tasks
\* that had an attempt, a successful attempt and a failed attempt in the
\* iterations of that sprint, consistent with the SprintResult returned by
\* the same call.
C39_ReportCountsSprintAttempts ==
  [][RetroStep =>
       /\ SavedReport.TasksAttempted = Cardinality(AttemptedInSprint)
       /\ SavedReport.TasksCompleted = Cardinality(SucceededInSprint)
       /\ SavedReport.TasksFailed = Cardinality(FailedInSprint)
       /\ SavedReport.TasksAttempted <= sup.result.TasksAttempted
       /\ SavedReport.TasksCompleted <= sup.result.TasksCompleted
       /\ SavedReport.TasksFailed <= sup.result.TasksFailed]_vars

\* The part about the attempted tasks alone.
C39_ReportCountsAttempted ==
  [][RetroStep =>
       SavedReport.TasksAttempted = Cardinality(AttemptedInSprint)]_vars

\* The part about the completed tasks alone.
C39_ReportCountsCompleted ==
  [][RetroStep =>
       SavedReport.TasksCompleted = Cardinality(SucceededInSprint)]_vars

\* What the report never does: count a task as completed.
C39_ReportNeverCountsCompleted ==
  [][RetroStep => SavedReport.TasksCompleted = 0]_vars

(***************************************************************************)
(* SpecProgress: the sessions of SpecSession with at most two sprints,     *)
(* under the assumption that Run and RunSprint keep running: they are      *)
(* sequential code without a blocking call in the model, so a step that    *)
(* stays possible is eventually taken.  Cancellation and the passing of    *)
(* time are the environment's and carry no fairness.                       *)
(***************************************************************************)
ProgressMaxSprints == 2

InitProgress ==
  /\ InitSession
  /\ cfg.MaxSprints <= ProgressMaxSprints

RunStep ==
  \/ Setup
  \/ CallRunSprint
  \/ LoopHead
  \/ SprintPass
  \/ Retro
  \/ AfterSprint
  \/ Finalize

SpecProgress == InitProgress /\ [][NextRun]_vars /\ WF_vars(RunStep)

PrdIds(prd) == {prd[k].id : k \in 1..Len(prd)}

\* The PRD names each task once and its dependencies, all among its tasks,
\* have no cycle.
AcyclicPrd(prd) ==
  /\ Cardinality(PrdIds(prd)) = Len(prd)
  /\ \A k \in 1..Len(prd) : Range(prd[k].dependsOn) \subseteq PrdIds(prd)
  /\ ~HasCycle([i \in PrdIds(prd) |->
                  [dependsOn |->
                     prd[CHOOSE k \in 1..Len(prd) : prd[k].id = i].dependsOn]])

\* Run is called on an acyclic PRD without a budget limit, with room for
\* every task in max_sprints sprints of sprint_size iterations.
EligibleRun ==
  /\ cfg.runner = "noop"
  /\ cfg.Budget = NoBudget
  /\ AcyclicPrd(cfg.prd)
  /\ cfg.MaxSprints * cfg.SprintSize >= Len(cfg.prd)

\* Run has ended with every task of the PRD completed in the TaskDB and in
\* the Store and the session marked completed.
RunCompletedEveryTask ==
  /\ sup.pc = "done"
  /\ sup.exit = ""
  /\ store.session = "completed"
  /\ PrdIds(cfg.prd) \subseteq DOMAIN tasks
  /\ PrdIds(cfg.prd) \subseteq ListTasks(store)
  /\ \A i \in PrdIds(cfg.prd) :
       /\ tasks[i].status = StatusCompleted
       /\ store.tasks[i].status = StatusCompleted

\* An iteration of the current sprint has failed.
AnIterationFailed == sup.result.TasksFailed > 0

\* Setup has failed in its git steps, before the PRD was read.
GitFailed == sup.exit = ErrSetup /\ DOMAIN tasks = {}

\* C36: progress: for an acyclic PRD with n tasks, an agent that succeeds
\* on every task, no budget limit, no cancellation and
\* max_sprints * sprint_size >= n, Supervisor.Run eventually ends with every
\* task completed in both the TaskDB and the Store and the session marked
\* completed.  A behaviour in which the context is cancelled, the repository
\* cannot be set up or an iteration fails is outside the claim.
C36_RunCompletesEveryTask ==
  EligibleRun =>
    <>(env.cancelled \/ GitFailed \/ AnIterationFailed
         \/ RunCompletedEveryTask)

\* Run returns.
C36_RunReturns == cfg.runner = "noop" => <>(sup.pc = "done")

\* An eligible Run never completes a task that the PRD lists as pending.
C36_RunCompletesNoTask ==
  (cfg.runner = "noop" /\ sup.pc # "start") =>
     \A k \in 1..Len(cfg.prd) :
       (cfg.prd[k].status = "" /\ cfg.prd[k].id \in DOMAIN tasks)
         => tasks[cfg.prd[k].id].status # StatusCompleted

====
